---- MODULE Spec2Model ----
(***************************************************************************)
(* The Motoko/Rust type-system bridge of lldb: the type registry            *)
(* (MotokoASTContext), its aggregate and tagged-enum nodes, the structural  *)
(* query GetNumChildren and the dynamic variant resolver                    *)
(* (RustLanguageRuntime::GetDynamicTypeAndAddress).                         *)
(*                                                                         *)
(* A type node is addressed by its pointer; pointers are the naturals       *)
(* 1, 2, ... in allocation order and 0 is the null pointer, so a            *)
(* CompilerType is modelled by the pointer it wraps and CompilerType() by 0.*)
(***************************************************************************)
EXTENDS Integers, Sequences, FiniteSets, TLC

VARIABLES
  m_types,            \* MotokoASTContext::m_types: the pointers the registry owns
  heap,               \* the node each allocated pointer addresses
  returned,           \* history: the handles the Create*Type calls returned, in order
  recorded,           \* history: per node, the RecordDiscriminant calls made on it
  drops,              \* history: per node, the fields DropDiscriminant erased from it
  ub,                 \* "none", or the undefined behaviour the program has run into
  lastCall,           \* history: the last registry call and what it returned
  pc,                 \* position of the GetDynamicTypeAndAddress query in flight
  in_value,           \* the CompilerType of the queried ValueObject
  original_ptr,       \* in_value.GetAddressOf(false)
  discriminant,       \* the value read from process memory
  mem_reads,          \* the memory reads this query issued: <<address, byte size>>
  lookups,            \* the FindEnumVariant calls this query made
  class_type_or_name, \* out: the dynamic type (0 when cleared)
  dynamic_address,    \* out: the dynamic load address
  value_type,         \* out: Value::ValueType
  result,             \* what the query returned: "none" while it runs
  steps,              \* history: the resolver steps this query has taken
  m_tu_decl,          \* the translation unit context (0 until it is created)
  decls,              \* the MotokoDeclBase objects, by pointer
  decl_calls          \* history: the namespace builder calls and their results

declVars == <<m_tu_decl, decls, decl_calls>>
regVars == <<m_types, heap, returned, recorded, drops, ub, declVars>>
dynVars == <<pc, in_value, original_ptr, discriminant, mem_reads, lookups,
             class_type_or_name, dynamic_address, value_type, result, steps>>
vars == <<m_types, heap, returned, recorded, drops, ub, lastCall,
          pc, in_value, original_ptr, discriminant, mem_reads, lookups,
          class_type_or_name, dynamic_address, value_type, result, steps,
          m_tu_decl, decls, decl_calls>>

----------------------------------------------------------------------------
\* Bounds of the model.

\* The registry holds at most MaxTypes nodes.
MaxTypes == 4
\* At most MaxFields AddFieldToStruct calls are made in all.
MaxFields == 4
\* AddFieldToStruct records the discriminants 0 .. MaxDiscr.
MaxDiscr == 1

Discriminants == 0 .. MaxDiscr
\* The discriminants looked up: the recorded ones and one never recorded.
AnyDiscriminant == 0 .. (MaxDiscr + 1)
FieldNames == {"f"}
ArrayLengths == {2}

NullType == 0

----------------------------------------------------------------------------
\* Type nodes (class MotokoType and its subclasses).

AggregateKinds == {"Struct", "Tuple", "Union", "Enum"}

NoDiscriminants == [d \in {} |-> 0]

\* The members the constructors initialise; a member a subclass does not have
\* holds its zero value.
MotokoType(kind) ==
  [kind |-> kind, m_name |-> "", m_ref |-> NullType, m_length |-> 0,
   m_fields |-> <<>>, m_arguments |-> <<>>, m_is_signed |-> FALSE,
   m_byte_size |-> 0,
   m_has_discriminant |-> FALSE, m_discr_offset |-> 0, m_discr_byte_size |-> 0,
   m_default |-> -1, m_discriminants |-> NoDiscriminants,
   m_template_args |-> <<>>]

MotokoIntegralOf(is_signed, byte_size) ==
  [MotokoType("Integral") EXCEPT !.m_is_signed = is_signed, !.m_byte_size = byte_size]
MotokoIntegral == MotokoIntegralOf(TRUE, 4)
MotokoFunction(return_type, arguments, template_arguments) ==
  [MotokoType("Function") EXCEPT !.m_ref = return_type,
                                 !.m_arguments = arguments,
                                 !.m_template_args = template_arguments]
MotokoPointer(pointee) == [MotokoType("Pointer") EXCEPT !.m_ref = pointee]
MotokoArray(length, elem) ==
  [MotokoType("Array") EXCEPT !.m_length = length, !.m_ref = elem]
MotokoTypedef(type) == [MotokoType("Typedef") EXCEPT !.m_ref = type]
MotokoAggregateBase(kind, has_discriminant) ==
  [MotokoType(kind) EXCEPT !.m_has_discriminant = has_discriminant]
MotokoStruct(has_discriminant) == MotokoAggregateBase("Struct", has_discriminant)
MotokoTuple(has_discriminant) == MotokoAggregateBase("Tuple", has_discriminant)
MotokoUnion == MotokoAggregateBase("Union", FALSE)
MotokoEnum(discr_offset, discr_byte_size) ==
  [MotokoAggregateBase("Enum", FALSE) EXCEPT
     !.m_discr_offset = discr_offset, !.m_discr_byte_size = discr_byte_size]

\* The node t constructed with the name given: MotokoType(name) : m_name(name).
WithName(t, name) == [t EXCEPT !.m_name = name]

Field(name, type, offset) == [m_name |-> name, m_type |-> type, m_offset |-> offset]

AsAggregate(t) == t.kind \in AggregateKinds
AsEnum(t) == t.kind = "Enum"
AsTuple(t) == t.kind = "Tuple"
AsPointer(t) == t.kind = "Pointer"
AsArray(t) == t.kind = "Array"
AsTypedef(t) == t.kind = "Typedef"
AsFunction(t) == t.kind = "Function"
FieldCount(t) == Len(t.m_fields)

\* f with the key k added (or overwritten), as std::map's  f[k] = v.
Put(f, k, v) == [x \in (DOMAIN f) \cup {k} |-> IF x = k THEN v ELSE f[x]]

\* snprintf(buf, sizeof(buf), "%u", n)
Digits == <<"0", "1", "2", "3", "4", "5", "6", "7", "8", "9">>
RECURSIVE UnsignedToString(_)
UnsignedToString(n) ==
  IF n < 10 THEN Digits[n + 1]
  ELSE UnsignedToString(n \div 10) \o Digits[(n % 10) + 1]

\* MotokoAggregateBase::AddField
AddField(t, name, type, offset) ==
  [t EXCEPT !.m_fields = Append(@, Field(name, type, offset))]

\* MotokoAggregateBase::FieldAt with the index of the code (from 0); NoField is
\* the nullptr it returns past the end.
NoField == [m_name |-> "", m_type |-> -1, m_offset |-> 0]
FieldAt(t, idx) ==
  IF idx < 0 \/ idx >= Len(t.m_fields) THEN NoField ELSE t.m_fields[idx + 1]

\* MotokoEnum::RecordDiscriminant, called once the field has been added.
RecordDiscriminant_NextField(t, is_default, discr) ==
  IF is_default THEN [t EXCEPT !.m_default = FieldCount(t)]
  ELSE [t EXCEPT !.m_discriminants = Put(@, discr, FieldCount(t))]
RecordDiscriminant(t, is_default, discr) ==
  LET value == FieldCount(t) - 1
  IN IF is_default THEN [t EXCEPT !.m_default = value]
     ELSE [t EXCEPT !.m_discriminants = Put(@, discr, value)]

\* Variants of MotokoEnum::FindEnumVariant that the properties below must tell
\* from the code's: one lets the default win over a recorded discriminant, one
\* falls back to the first field where the code finds nothing.
FindEnumVariant_DefaultFirst(t, discr) ==
  IF t.m_default # -1 THEN FieldAt(t, t.m_default).m_type
  ELSE IF discr \in DOMAIN t.m_discriminants
    THEN FieldAt(t, t.m_discriminants[discr]).m_type
  ELSE NullType
FindEnumVariant_FirstField(t, discr) ==
  IF discr \in DOMAIN t.m_discriminants
    THEN FieldAt(t, t.m_discriminants[discr]).m_type
  ELSE IF t.m_default = -1 THEN FieldAt(t, 0).m_type
  ELSE FieldAt(t, t.m_default).m_type

\* MotokoEnum::FindEnumVariant
MotokoEnum_FindEnumVariant(t, discr) ==
  IF discr \in DOMAIN t.m_discriminants
    THEN FieldAt(t, t.m_discriminants[discr]).m_type
  ELSE IF t.m_default = -1 THEN NullType
  ELSE FieldAt(t, t.m_default).m_type

\* Variants of DropDiscriminant that the properties below must tell from the
\* code's: one erases the last field instead of the first, one leaves
\* m_has_discriminant set.
DropDiscriminant_EraseLast(t) ==
  IF t.m_has_discriminant
    THEN [t EXCEPT !.m_has_discriminant = FALSE,
                   !.m_fields = SubSeq(@, 1, Len(@) - 1)]
    ELSE t
DropDiscriminant_KeepFlag(t) ==
  IF t.m_has_discriminant THEN [t EXCEPT !.m_fields = Tail(@)] ELSE t

\* MotokoAggregateBase::DropDiscriminant, where the vector is not empty.
MotokoAggregateBase_DropDiscriminant(t) ==
  IF t.m_has_discriminant
    THEN [t EXCEPT !.m_has_discriminant = FALSE, !.m_fields = Tail(@)]
    ELSE t

\* MotokoTuple::DropDiscriminant
MotokoTuple_DropDiscriminant(t) ==
  LET b == MotokoAggregateBase_DropDiscriminant(t)
  IN [b EXCEPT !.m_fields =
        [i \in 1 .. Len(b.m_fields) |->
           [b.m_fields[i] EXCEPT !.m_name = UnsignedToString(i - 1)]]]

\* The virtual call agg->DropDiscriminant().
DropDiscriminant(t) ==
  IF AsTuple(t) THEN MotokoTuple_DropDiscriminant(t)
  ELSE MotokoAggregateBase_DropDiscriminant(t)

\* m_fields.erase(m_fields.begin()) on an empty vector is undefined: anything
\* may follow, so a run that gets there is followed no further (ub is set and
\* no operation is enabled), and the properties speak of the calls that return.
ErasesFromEmpty(t) == t.m_has_discriminant /\ t.m_fields = <<>>

\* MotokoEnum::FinishInitialization: the loop over the enum's own fields, from
\* field i on, over the registry state s = [heap, drops, ub].  The loop stops
\* where it runs into undefined behaviour.
RECURSIVE FinishLoop(_, _, _)
FinishLoop(s, e, i) ==
  IF i > Len(s.heap[e].m_fields) THEN s
  ELSE LET rtype == s.heap[e].m_fields[i].m_type
           agg == s.heap[rtype]
       IN IF ~AsAggregate(agg) THEN FinishLoop(s, e, i + 1)
          ELSE IF ErasesFromEmpty(agg) THEN [s EXCEPT !.ub = "erase_empty"]
          ELSE FinishLoop(
                 [s EXCEPT !.heap[rtype] = DropDiscriminant(agg),
                           !.drops[rtype] =
                              IF agg.m_has_discriminant THEN @ + 1 ELSE @],
                 e, i + 1)

\* The virtual call a->FinishInitialization(): only MotokoEnum overrides it.
FinishInitialization(s, a) ==
  IF AsEnum(s.heap[a]) THEN FinishLoop(s, a, 1) ELSE s

----------------------------------------------------------------------------
\* The registry (MotokoASTContext).

\* A variant of CacheType that the properties below must tell from the code's:
\* it interns, handing out the node the registry has already when the new one
\* is structurally identical to it.
CacheType_Interning(new_type) ==
  LET same == {p \in m_types : heap[p] = heap'[new_type]}
  IN IF same = {} THEN [types |-> m_types \cup {new_type}, type |-> new_type]
     ELSE [types |-> m_types, type |-> CHOOSE p \in same : TRUE]

\* The pointer operator new hands out.
NewType == Cardinality(DOMAIN heap) + 1

\* MotokoASTContext::CacheType: the pointers owned afterwards and the handle
\* returned.  heap' already holds the node new_type addresses.
CacheType(new_type) ==
  [types |-> m_types \cup {new_type}, type |-> new_type]

\* new T(...) followed by CacheType.
Create(node) ==
  /\ ub = "none" /\ pc = "idle"
  /\ heap' = Put(heap, NewType, node)
  /\ LET r == CacheType(NewType)
     IN /\ m_types' = r.types
        /\ returned' = Append(returned, r.type)
  /\ recorded' = Put(recorded, NewType, <<>>)
  /\ drops' = Put(drops, NewType, 0)
  /\ UNCHANGED <<ub, dynVars, declVars>>

CreateIntegralType == Create(MotokoIntegral)
CreatePointerType(pointee_type) == Create(MotokoPointer(pointee_type))
CreateArrayType(element_type, length) == Create(MotokoArray(length, element_type))
CreateTypedefType(impl) == Create(MotokoTypedef(impl))
CreateStructType(has_discriminant) == Create(MotokoStruct(has_discriminant))
CreateTupleType(has_discriminant) == Create(MotokoTuple(has_discriminant))
CreateUnionType == Create(MotokoUnion)
CreateEnumType(discr_offset, discr_byte_size) ==
  Create(MotokoEnum(discr_offset, discr_byte_size))

\* A CompilerType of another type system (one that is no MotokoASTContext).
ForeignType == -2

\* llvm::dyn_cast_or_null<MotokoASTContext>(type.GetTypeSystem()) is not null:
\* the type is a node of a MotokoASTContext, this one or another instance (the
\* nodes of heap that m_types does not hold belong to another instance).
AsMotokoASTContext(type) == type \in DOMAIN heap

\* MotokoASTContext::AddFieldToStruct
AddFieldToStruct(struct_type, name, field_type, byte_offset, is_default, discr) ==
  /\ ub = "none" /\ pc = "idle"
  /\ IF struct_type = NullType \/ ~AsMotokoASTContext(struct_type)
        \/ ~AsAggregate(heap[struct_type])
       THEN UNCHANGED <<heap, recorded>>
       ELSE LET a == AddField(heap[struct_type], name, field_type, byte_offset)
            IN IF AsEnum(a)
                 THEN /\ heap' = [heap EXCEPT ![struct_type] =
                                    RecordDiscriminant(a, is_default, discr)]
                      /\ recorded' = [recorded EXCEPT ![struct_type] =
                           Append(@, [is_default |-> is_default,
                                      discriminant |-> discr])]
                 ELSE /\ heap' = [heap EXCEPT ![struct_type] = a]
                      /\ UNCHANGED recorded
  /\ UNCHANGED <<m_types, returned, drops, ub, dynVars, declVars>>

\* MotokoASTContext::FinishAggregateInitialization
FinishAggregateInitialization(type) ==
  /\ ub = "none" /\ pc = "idle"
  /\ IF type = NullType \/ ~AsMotokoASTContext(type) \/ ~AsAggregate(heap[type])
       THEN UNCHANGED <<heap, drops, ub>>
       ELSE LET s == FinishInitialization(
                       [heap |-> heap, drops |-> drops, ub |-> ub], type)
            IN /\ heap' = s.heap
               /\ drops' = s.drops
               /\ ub' = s.ub
  /\ UNCHANGED <<m_types, returned, recorded, dynVars, declVars>>

\* MotokoASTContext::CreateTupleType and CreateStructType with the name passed.
CreateNamedTupleType(name, has_discriminant) ==
  Create(WithName(MotokoTuple(has_discriminant), name))
CreateNamedStructType(name, has_discriminant) ==
  Create(WithName(MotokoStruct(has_discriminant), name))

\* MotokoASTContext::CreateVoidType
CreateVoidType == Create(WithName(MotokoTuple(FALSE), "()"))

\* Variants of IsVoidType that the properties below must tell from the
\* code's: one does not look at the field count, one takes the empty name for
\* "()" too.
IsVoidType_AnyFieldCount(type) ==
  /\ type # NullType
  /\ AsTuple(heap[type]) /\ heap[type].m_name = "()"
IsVoidType_Unnamed(type) ==
  /\ type # NullType
  /\ AsTuple(heap[type]) /\ heap[type].m_name \in {"", "()"}
  /\ FieldCount(heap[type]) = 0

\* MotokoASTContext::IsVoidType
IsVoidType(type) ==
  IF type = NullType THEN FALSE
  ELSE LET tuple == heap[type]
       IN /\ AsTuple(tuple)
          /\ tuple.m_name # ""
          /\ tuple.m_name = "()"
          /\ FieldCount(tuple) = 0

\* MotokoASTContext::FindEnumVariant
FindEnumVariant(type, discr) ==
  IF type = NullType \/ ~AsMotokoASTContext(type) THEN NullType
  ELSE IF AsEnum(heap[type]) THEN MotokoEnum_FindEnumVariant(heap[type], discr)
  ELSE NullType

\* MotokoASTContext::GetEnumDiscriminantLocation: whether the type is a tagged
\* enum, and then its discriminant's offset and byte size.
GetEnumDiscriminantLocation(type) ==
  IF type = NullType \/ ~AsMotokoASTContext(type) THEN [ok |-> FALSE]
  ELSE IF AsEnum(heap[type])
    THEN [ok |-> TRUE, discr_offset |-> heap[type].m_discr_offset,
          discr_byte_size |-> heap[type].m_discr_byte_size]
  ELSE [ok |-> FALSE]

\* A variant of GetNumChildren that the properties below must tell from the
\* code's: a typedef has no children of its own.
RECURSIVE GetNumChildren_TypedefOpaque(_)
GetNumChildren_TypedefOpaque(type) ==
  IF type = NullType THEN 0
  ELSE LET t == heap[type]
       IN IF AsPointer(t)
            THEN LET pointee_children == GetNumChildren_TypedefOpaque(t.m_ref)
                 IN IF pointee_children = 0 THEN 1 ELSE pointee_children
          ELSE IF AsArray(t) THEN t.m_length
          ELSE IF AsAggregate(t) THEN FieldCount(t)
          ELSE 0

\* A variant of GetNumChildren that the properties below must tell from the
\* code's: a pointer reports its pointee's count even where that is 0.
RECURSIVE GetNumChildren_NoFallback(_)
GetNumChildren_NoFallback(type) ==
  IF type = NullType THEN 0
  ELSE LET t == heap[type]
       IN IF AsPointer(t) \/ AsTypedef(t) THEN GetNumChildren_NoFallback(t.m_ref)
          ELSE IF AsArray(t) THEN t.m_length
          ELSE IF AsAggregate(t) THEN FieldCount(t)
          ELSE 0

\* MotokoASTContext::GetNumChildren.  A pointee, an element or an aliased type
\* was created before the node that refers to it, so the recursion ends.
RECURSIVE GetNumChildren(_)
GetNumChildren(type) ==
  IF type = NullType THEN 0
  ELSE LET t == heap[type]
       IN IF AsPointer(t)
            THEN LET pointee_children == GetNumChildren(t.m_ref)
                 IN IF pointee_children = 0 THEN 1 ELSE pointee_children
          ELSE IF AsArray(t) THEN t.m_length
          ELSE IF AsTypedef(t) THEN GetNumChildren(t.m_ref)
          ELSE IF AsAggregate(t) THEN FieldCount(t)
          ELSE 0

\* MotokoType::ByteSize() of a node: an array's is its element's times its
\* length, a typedef's is its aliased type's, the others hold theirs.
RECURSIVE ByteSize(_)
ByteSize(type) ==
  LET t == heap[type]
  IN IF AsArray(t) THEN ByteSize(t.m_ref) * t.m_length
     ELSE IF AsTypedef(t) THEN ByteSize(t.m_ref)
     ELSE t.m_byte_size

\* MotokoType::IsAggregateType(): overridden by MotokoArray and
\* MotokoAggregateBase.
IsAggregateType(type) == AsArray(heap[type]) \/ AsAggregate(heap[type])

\* MotokoASTContext::GetFieldAtIndex: the field's type, its name and
\* *bit_offset_ptr.
RECURSIVE GetFieldAtIndex(_, _)
GetFieldAtIndex(type, idx) ==
  LET none == [type |-> NullType, name |-> "", bit_offset |-> 0]
  IN IF type = NullType THEN none
     ELSE LET t == heap[type]
          IN IF AsTypedef(t) THEN GetFieldAtIndex(t.m_ref, idx)
             ELSE IF AsAggregate(t) /\ idx < FieldCount(t)
               THEN [type |-> t.m_fields[idx + 1].m_type,
                     name |-> t.m_fields[idx + 1].m_name,
                     bit_offset |-> t.m_fields[idx + 1].m_offset * 8]
             ELSE none

\* What GetChildCompilerTypeAtIndex returns and writes to its outputs.  ub
\* tells that the call has dereferenced an empty llvm::Optional.
Child(type, name, byte_size, byte_offset, is_deref) ==
  [type |-> type, child_name |-> name, child_byte_size |-> byte_size,
   child_byte_offset |-> byte_offset, child_is_deref_of_parent |-> is_deref,
   ub |-> FALSE]
\* The outputs as cleared on entry, with the invalid CompilerType.
NoChild == Child(NullType, "", 0, 0, FALSE)

\* The ValueObject given has no name, or none is given.
NoName == ""

\* A variant of ArrayChildExists below that the properties must tell from the
\* code's: it checks the bounds whatever the caller asked for.
ArrayChildExists_Checked(ignore_array_bounds, idx, length) == idx < length

\* GetChildCompilerTypeAtIndex, the test of the Array branch.
ArrayChildExists(ignore_array_bounds, idx, length) ==
  ignore_array_bounds \/ idx < length

\* A variant of DelegatedChild below that the properties must tell from the
\* code's: it marks the child as a dereference of the parent.
DelegatedChild_MarksDeref(child) ==
  [child EXCEPT !.child_is_deref_of_parent = TRUE]

\* GetChildCompilerTypeAtIndex, the transparent branch of a Pointer: the
\* pointee's answer is passed on, but what it says of child_is_deref_of_parent
\* goes to a temporary, and the caller's output keeps the value it was cleared
\* to.
DelegatedChild(child) ==
  [child EXCEPT !.child_is_deref_of_parent = FALSE]

\* MotokoASTContext::GetChildCompilerTypeAtIndex.  parent_name is the name of
\* valobj.  On an aggregate without an idx-th field the code dereferences the
\* empty Optional that GetByteSize of the invalid type returns.
RECURSIVE GetChildCompilerTypeAtIndex(_, _, _, _, _)
GetChildCompilerTypeAtIndex(type, idx, transparent_pointers, ignore_array_bounds, parent_name) ==
  IF type = NullType THEN NoChild
  ELSE
    LET t == heap[type]
    IN IF AsAggregate(t)
         THEN LET f == GetFieldAtIndex(type, idx)
              IN IF f.type = NullType
                   THEN [NoChild EXCEPT !.ub = TRUE]
                   ELSE Child(f.type, f.name, ByteSize(f.type), f.bit_offset \div 8,
                              FALSE)
       ELSE IF AsPointer(t)
         THEN LET pointee == t.m_ref
              IN IF pointee = NullType \/ IsVoidType(pointee) THEN NoChild
                 ELSE IF transparent_pointers /\ IsAggregateType(pointee)
                   THEN DelegatedChild(
                          GetChildCompilerTypeAtIndex(pointee, idx, transparent_pointers,
                                                      ignore_array_bounds, parent_name))
                 ELSE LET name == IF parent_name = NoName THEN ""
                                  ELSE "*" \o parent_name
                      IN IF idx = 0
                           THEN Child(pointee, name, ByteSize(pointee), 0, TRUE)
                           ELSE Child(NullType, name, 0, 0, TRUE)
       ELSE IF AsArray(t)
         THEN IF ArrayChildExists(ignore_array_bounds, idx, t.m_length)
                   /\ t.m_ref # NullType
                THEN LET child_byte_size == ByteSize(t.m_ref)
                     IN Child(t.m_ref, "[" \o UnsignedToString(idx) \o "]",
                              child_byte_size, idx * child_byte_size, FALSE)
                ELSE NoChild
       ELSE IF AsTypedef(t)
         THEN GetChildCompilerTypeAtIndex(t.m_ref, idx, transparent_pointers,
                                          ignore_array_bounds, parent_name)
       ELSE NoChild

\* The "not found" value of GetIndexOfChildWithName: the uint32_t 2^32 - 1,
\* written as the int of the same bit pattern (the integers of the checker end
\* at 2^31 - 1); no index is negative.
UINT_MAX == -1

\* The indexes of the fields of node t that are named name.
FieldsNamed(t, name) == {i \in 0 .. FieldCount(t) - 1 : t.m_fields[i + 1].m_name = name}

\* A variant of FirstFieldNamed below that the properties must tell from the
\* code's: the scan keeps the last match.
FirstFieldNamed_LastMatch(t, name) ==
  IF FieldsNamed(t, name) = {} THEN UINT_MAX
  ELSE CHOOSE i \in FieldsNamed(t, name) : \A j \in FieldsNamed(t, name) : j <= i

\* GetIndexOfChildWithName, the loop over the fields of an aggregate: it
\* returns at the first field of that name.
FirstFieldNamed(t, name) ==
  IF FieldsNamed(t, name) = {} THEN UINT_MAX
  ELSE CHOOSE i \in FieldsNamed(t, name) : \A j \in FieldsNamed(t, name) : i <= j

\* MotokoASTContext::GetIndexOfChildWithName.  The CompilerType of the pointee
\* passes the call on to its type system when it is valid.
RECURSIVE GetIndexOfChildWithName(_, _)
GetIndexOfChildWithName(type, name) ==
  IF type = NullType THEN UINT_MAX
  ELSE LET t == heap[type]
       IN IF AsAggregate(t) THEN FirstFieldNamed(t, name)
          ELSE IF AsPointer(t) THEN GetIndexOfChildWithName(t.m_ref, name)
          ELSE UINT_MAX

\* MotokoASTContext::CreateFunctionType
CreateFunctionType(return_type, params, template_params) ==
  Create(MotokoFunction(return_type, params, template_params))

\* MotokoAggregateBase::AddTemplateParameter
MotokoAggregateBase_AddTemplateParameter_Front(t, ctype) ==
  [t EXCEPT !.m_template_args = <<ctype>> \o @]
MotokoAggregateBase_AddTemplateParameter(t, ctype) ==
  [t EXCEPT !.m_template_args = Append(@, ctype)]

\* MotokoASTContext::AddTemplateParameter
AddTemplateParameter(type, param) ==
  /\ ub = "none" /\ pc = "idle"
  /\ IF type = NullType \/ ~AsMotokoASTContext(type) \/ ~AsAggregate(heap[type])
       THEN UNCHANGED heap
       ELSE heap' = [heap EXCEPT ![type] =
                       MotokoAggregateBase_AddTemplateParameter(@, param)]
  /\ UNCHANGED <<m_types, returned, recorded, drops, ub, dynVars, declVars>>

\* MotokoASTContext::GetNumTemplateArguments
GetNumTemplateArguments(type) ==
  IF type # NullType /\ (AsAggregate(heap[type]) \/ AsFunction(heap[type]))
    THEN Len(heap[type].m_template_args)
    ELSE 0

\* MotokoASTContext::GetTypeTemplateArgument.  Neither class checks idx: an
\* index past the end of the vector is undefined behaviour.
GetTypeTemplateArgument(type, idx) ==
  IF type # NullType /\ (AsAggregate(heap[type]) \/ AsFunction(heap[type]))
    THEN IF idx < Len(heap[type].m_template_args)
           THEN [type |-> heap[type].m_template_args[idx + 1], ub |-> FALSE]
           ELSE [type |-> NullType, ub |-> TRUE]
    ELSE [type |-> NullType, ub |-> FALSE]

----------------------------------------------------------------------------
\* Synthesis of C declarations.  A std::string is the sequence of the pieces
\* the code concatenates; TypeNameMap::typedefs is the sequence of the
\* definitions appended to it.

\* A TypeNameMap as constructed.
TypeNameMap == [name_map |-> [t \in {} |-> ""], counter |-> 0, typedefs |-> <<>>]

\* A variant of TypeNameMap::Tag that the properties below must tell from the
\* code's: it does not look the type up and hands out a fresh tag every time.
Tag_AlwaysFresh(nm, type) ==
  LET tagname == "tag" \o UnsignedToString(nm.counter)
  IN [nm |-> [nm EXCEPT !.name_map = Put(@, type, tagname), !.counter = @ + 1],
      tagname |-> tagname, inserted |-> TRUE]

\* Another variant: it hands out the tag of a type it has not seen without
\* registering the type.
Tag_NotRegistered(nm, type) ==
  IF type \notin DOMAIN nm.name_map
    THEN [nm |-> [nm EXCEPT !.counter = @ + 1],
          tagname |-> "tag" \o UnsignedToString(nm.counter), inserted |-> TRUE]
    ELSE [nm |-> nm, tagname |-> nm.name_map[type], inserted |-> FALSE]

\* TypeNameMap::Tag: the map afterwards, *tagname and the value returned.
Tag(nm, type) ==
  IF type \notin DOMAIN nm.name_map
    THEN LET tagname == "tag" \o UnsignedToString(nm.counter)
         IN [nm |-> [nm EXCEPT !.name_map = Put(@, type, tagname),
                              !.counter = @ + 1],
             tagname |-> tagname, inserted |-> TRUE]
    ELSE [nm |-> nm, tagname |-> nm.name_map[type], inserted |-> FALSE]

\* A variant of DiscriminantEmitted below that the properties must tell from
\* the code's: it emits the discriminant whatever the number of fields.
DiscriminantEmitted_AnyFieldCount(t) == t.m_discr_offset = 0

\* MotokoEnum::GetCABITypeDeclaration: whether the hidden discriminant field is
\* emitted.
DiscriminantEmitted(t) == FieldCount(t) > 1 /\ t.m_discr_offset = 0

\* The text a definition starts with, up to its fields.
DefinitionHead(t, tagname) ==
  CASE AsEnum(t) ->
         <<"struct ", tagname, "{ ">>
         \o (IF DiscriminantEmitted(t)
               THEN <<"int", UnsignedToString(8 * t.m_discr_byte_size),
                      "_t __discr; ">>
               ELSE <<>>)
    [] t.kind = "Union" -> <<"  union ", tagname, "{">>
    [] OTHER -> <<"  struct ", tagname, "{">>

\* The recursion below is followed until TagLimit tags have been handed out:
\* the code has no such limit, and no registry of the sizes checked gets
\* there unless an aggregate is rendered again and again.
TagLimit == 8

\* name_map->typedefs.append(def), and a variant that puts the definition in
\* front of those the prelude holds.
AppendDefinition_Front(typedefs, def) == <<def>> \o typedefs
AppendDefinition(typedefs, def) == Append(typedefs, def)

RECURSIVE MotokoType_GetCABITypeDeclaration(_, _, _)
RECURSIVE GetFieldsCABITypeDeclaration(_, _, _, _, _)
RECURSIVE GetArgumentsCABITypeDeclaration(_, _, _, _)

\* MotokoAggregateBase::GetFieldsCABITypeDeclaration, from field i on, with
\* the text gathered so far in text.
GetFieldsCABITypeDeclaration(nm, fields, i, argno, text) ==
  IF i > Len(fields) THEN [nm |-> nm, result |-> text]
  ELSE LET f == fields[i]
           name == IF f.m_name = "" THEN "__" \o UnsignedToString(argno)
                   ELSE "_" \o f.m_name
           d == MotokoType_GetCABITypeDeclaration(nm, f.m_type, name)
       IN GetFieldsCABITypeDeclaration(
            d.nm, fields, i + 1, IF f.m_name = "" THEN argno + 1 ELSE argno,
            text \o d.result \o <<"; ">>)

\* The loop over m_arguments of MotokoFunction::GetCABITypeDeclaration.
GetArgumentsCABITypeDeclaration(nm, arguments, i, text) ==
  IF i > Len(arguments) THEN [nm |-> nm, result |-> text]
  ELSE LET d == MotokoType_GetCABITypeDeclaration(nm, arguments[i], "")
       IN GetArgumentsCABITypeDeclaration(
            d.nm, arguments, i + 1,
            text \o (IF i = 1 THEN <<>> ELSE <<", ">>) \o d.result)

\* The virtual call rtype->GetCABITypeDeclaration(name_map, varname): the
\* TypeNameMap afterwards and the string returned.
MotokoType_GetCABITypeDeclaration(nm, type, varname) ==
  LET t == heap[type]
  IN CASE t.kind = "Integral" ->
            [nm |-> nm,
             result |-> <<"__">> \o (IF t.m_is_signed THEN <<>> ELSE <<"U">>)
                        \o <<"INT", UnsignedToString(8 * t.m_byte_size),
                              "_TYPE__ ", varname>>]
       [] AsPointer(t) ->
            IF AsFunction(heap[t.m_ref])
              THEN MotokoType_GetCABITypeDeclaration(nm, t.m_ref, varname)
              ELSE LET d == MotokoType_GetCABITypeDeclaration(nm, t.m_ref, "")
                   IN [nm |-> d.nm, result |-> d.result \o <<"* ", varname>>]
       [] AsArray(t) ->
            LET d == MotokoType_GetCABITypeDeclaration(nm, t.m_ref, varname)
            IN [nm |-> d.nm,
                result |-> d.result \o <<"[", UnsignedToString(t.m_length), "]">>]
       [] AsTypedef(t) -> MotokoType_GetCABITypeDeclaration(nm, t.m_ref, varname)
       [] AsFunction(t) ->
            LET r == MotokoType_GetCABITypeDeclaration(nm, t.m_ref, "")
                a == GetArgumentsCABITypeDeclaration(
                       r.nm, t.m_arguments, 1,
                       r.result \o <<" (*", varname, ")(">>)
            IN [nm |-> a.nm, result |-> a.result \o <<")">>]
       [] OTHER ->
            LET g == Tag(nm, type)
            IN IF g.inserted /\ g.nm.counter <= TagLimit
                 THEN LET f == GetFieldsCABITypeDeclaration(
                                 g.nm, t.m_fields, 1, 0, <<>>)
                          def == DefinitionHead(t, g.tagname) \o f.result
                                 \o <<" };\n">>
                      IN [nm |-> [f.nm EXCEPT !.typedefs = AppendDefinition(@, def)],
                          result |-> <<g.tagname, " ", varname>>]
                 ELSE [nm |-> g.nm, result |-> <<g.tagname, " ", varname>>]

\* MotokoASTContext::GetCABITypeDeclaration: the value returned, *result (left
\* as the caller passed it where the call fails) and *name_map afterwards.
GetCABITypeDeclaration(type, varname, name_map, out) ==
  IF type = NullType \/ ~AsMotokoASTContext(type)
    THEN [ok |-> FALSE, result |-> out, name_map |-> name_map]
    ELSE LET d == MotokoType_GetCABITypeDeclaration(name_map, type, varname)
         IN [ok |-> TRUE, result |-> d.result, name_map |-> d.nm]

----------------------------------------------------------------------------
\* The declaration namespace tree

\* The opaque pointer of an invalid CompilerDeclContext or CompilerDecl.
NullDecl == 0
\* A CompilerDeclContext of another type system.
ForeignDecl == -2

\* MotokoDeclBase objects. m_decls maps the names registered in a context to
\* the objects it owns; alive is FALSE once the object has been destroyed.
MotokoDeclContext(name, parent) ==
  [kind |-> "DeclContext", m_name |-> name, m_parent |-> parent,
   m_mangled |-> "", m_full_name |-> "", m_decls |-> [n \in {} |-> NullDecl],
   alive |-> TRUE]
MotokoDecl(name, mangled, parent) ==
  [kind |-> "Decl", m_name |-> name, m_parent |-> parent,
   m_mangled |-> mangled, m_full_name |-> "", m_decls |-> [n \in {} |-> NullDecl],
   alive |-> TRUE]

AsDeclContext(d) == d.kind = "DeclContext"
AsDecl(d) == d.kind = "Decl"

\* The pointer operator new returns: every object has its own.
NewDecl(ds) == Cardinality(DOMAIN ds) + 1

\* MotokoDeclContext::FindByName.
FindByName(dc, name) ==
  IF name \notin DOMAIN dc.m_decls THEN NullDecl ELSE dc.m_decls[name]

RECURSIVE IsWithin(_, _, _)
\* q is p or is owned, through any number of contexts, by p.
IsWithin(ds, q, p) ==
  \/ q = p
  \/ ds[q].m_parent # NullDecl /\ IsWithin(ds, ds[q].m_parent, p)

\* A variant of JoinQualified below that the properties must tell from the
\* code's: it puts the separator after an empty name of the parent too.
JoinQualified_Always(basename, name) == basename \o "::" \o name

\* MotokoDeclBase::QualifiedName, the name made of the parent's: a ConstString
\* tests false when it is empty.
JoinQualified(basename, name) ==
  IF basename # "" THEN basename \o "::" \o name ELSE name

\* MotokoDeclBase::QualifiedName of object p: the name returned, and the
\* objects afterwards (m_full_name is filled in along the way to the root).
RECURSIVE QualifiedName(_, _)
QualifiedName(ds, p) ==
  IF ds[p].m_parent = NullDecl THEN [decls |-> ds, res |-> ds[p].m_name]
  ELSE IF ds[p].m_full_name # "" THEN [decls |-> ds, res |-> ds[p].m_full_name]
  ELSE LET basename == QualifiedName(ds, ds[p].m_parent)
           full == JoinQualified(basename.res, ds[p].m_name)
       IN [decls |-> [basename.decls EXCEPT ![p].m_full_name = full],
           res |-> full]

\* MotokoDeclContext::AddItem: m_decls[name] = std::move(item). The unique_ptr
\* the map held under the name is destroyed, and with it what it owns.
AddItem(ds, dc, item) ==
  LET name == ds[item].m_name
      old == FindByName(ds[dc], name)
  IN [q \in DOMAIN ds |->
        IF q = dc THEN [ds[q] EXCEPT !.m_decls = Put(@, name, item)]
        ELSE IF old # NullDecl /\ IsWithin(ds, q, old)
               THEN [ds[q] EXCEPT !.alive = FALSE]
               ELSE ds[q]]

\* llvm::dyn_cast_or_null<MotokoASTContext>(parent.GetTypeSystem()) is not
\* null.
IsMotokoDeclContext(parent) == parent \in DOMAIN decls

\* MotokoASTContext::GetTranslationUnitDecl: the objects and m_tu_decl
\* afterwards, and the context returned.
GetTranslationUnitDecl ==
  IF m_tu_decl = NullDecl
    THEN [decls |-> Put(decls, NewDecl(decls), MotokoDeclContext("", NullDecl)),
          m_tu_decl |-> NewDecl(decls), res |-> NewDecl(decls)]
    ELSE [decls |-> decls, m_tu_decl |-> m_tu_decl, res |-> m_tu_decl]

\* MotokoASTContext::GetNamespaceDecl.
GetNamespaceDecl(parent, name) ==
  IF parent = NullDecl \/ ~IsMotokoDeclContext(parent)
    THEN [decls |-> decls, res |-> NullDecl]
    ELSE LET base == FindByName(decls[parent], name)
             new_ns == NewDecl(decls)
         IN IF base # NullDecl /\ AsDeclContext(decls[base])
              THEN [decls |-> decls, res |-> base]
              ELSE [decls |-> AddItem(Put(decls, new_ns,
                                          MotokoDeclContext(name, parent)),
                                      parent, new_ns),
                    res |-> new_ns]

\* MotokoASTContext::GetDecl.
GetDecl(parent, name, mangled) ==
  IF parent = NullDecl \/ ~IsMotokoDeclContext(parent)
    THEN [decls |-> decls, res |-> NullDecl]
    ELSE LET base == FindByName(decls[parent], name)
             new_ns == NewDecl(decls)
         IN IF base # NullDecl /\ AsDecl(decls[base])
              THEN [decls |-> decls, res |-> base]
              ELSE [decls |-> AddItem(Put(decls, new_ns,
                                          MotokoDecl(name, mangled, parent)),
                                      parent, new_ns),
                    res |-> new_ns]

----------------------------------------------------------------------------
\* The model's initial state and its steps.

LLDB_INVALID_ADDRESS == -1

\* A call as lastCall remembers it: the operation, the type and discriminant
\* passed, the type returned, and whether it repeats the call before it.
Call(op, type, discr, res, again) ==
  [op |-> op, type |-> type, discr |-> discr, result |-> res, again |-> again]

Init ==
  /\ m_types = {}
  /\ heap = [p \in {} |-> MotokoIntegral]
  /\ returned = <<>>
  /\ recorded = [p \in {} |-> <<>>]
  /\ drops = [p \in {} |-> 0]
  /\ ub = "none"
  /\ lastCall = Call("none", NullType, 0, NullType, FALSE)
  /\ pc = "idle"
  /\ in_value = NullType
  /\ original_ptr = LLDB_INVALID_ADDRESS
  /\ discriminant = 0
  /\ mem_reads = <<>>
  /\ lookups = 0
  /\ class_type_or_name = NullType
  /\ dynamic_address = LLDB_INVALID_ADDRESS
  /\ value_type = "eValueTypeScalar"
  /\ result = "none"
  /\ steps = <<>>
  /\ m_tu_decl = NullDecl
  /\ decls = [p \in {} |-> MotokoDeclContext("", NullDecl)]
  /\ decl_calls = <<>>

\* The AddFieldToStruct calls made so far: a field is in its vector or was
\* erased from it.
FieldsOf(p) == FieldCount(heap[p]) + drops[p]
RECURSIVE FieldsAddedTo(_)
FieldsAddedTo(S) ==
  IF S = {} THEN 0
  ELSE LET p == CHOOSE q \in S : TRUE IN FieldsOf(p) + FieldsAddedTo(S \ {p})
FieldsAdded == FieldsAddedTo(DOMAIN heap)

\* The byte offset the caller passes: it lays the fields of an aggregate out one
\* after the other.
NextOffset(s) == 4 * FieldsOf(s)

\* The field types the caller passes: an enum's fields are its variants'
\* payloads, the fields of the other aggregates are scalars.
FieldTypes(s) ==
  IF AsEnum(heap[s]) THEN {p \in m_types : ~AsEnum(heap[p])}
  ELSE {p \in m_types : heap[p].kind = "Integral"}

\* No operation compares two pointers, so registries that differ only in the
\* order their nodes were created in behave alike: the caller creates the
\* scalars first, then the payloads, then the enums.
Rank(t) ==
  CASE t.kind = "Integral" -> 0
    [] t.kind \in {"Struct", "Union"} -> 1
    [] t.kind = "Tuple" -> 2
    [] OTHER -> 3
InCreationOrder(h) ==
  \A p \in DOMAIN h : \A q \in DOMAIN h : p < q => Rank(h[p]) <= Rank(h[q])

\* The nodes a->FinishInitialization() calls DropDiscriminant on.
FinishTargets(a) ==
  IF a \in m_types /\ AsEnum(heap[a])
    THEN {heap[a].m_fields[i].m_type : i \in 1 .. Len(heap[a].m_fields)}
         \cap {p \in m_types : AsAggregate(heap[p])}
    ELSE {}

OtherCall == Call("other", NullType, 0, NullType, FALSE)

\* The caller's steps, for a registry of at most n nodes and at most n
\* AddFieldToStruct calls.
CreateStep(n) ==
  /\ Cardinality(DOMAIN heap) < n
  /\ \/ CreateIntegralType
     \/ \E d \in BOOLEAN : CreateStructType(d)
     \/ \E d \in BOOLEAN : CreateTupleType(d)
     \/ CreateEnumType(0, 1)
  /\ InCreationOrder(heap')

AddFieldStep(n) ==
  /\ FieldsAdded < n
  /\ \E s \in m_types, name \in FieldNames :
       \E t \in FieldTypes(s) :
         AddFieldToStruct(s, name, t, NextOffset(s), FALSE, FieldsOf(s))

FinishStep(t) == FinishAggregateInitialization(t)

----------------------------------------------------------------------------
\* Spec: a registry is built, its aggregates are filled and finalized.

NextCreate == CreateStep(MaxTypes) /\ UNCHANGED lastCall
NextAddField == AddFieldStep(MaxFields) /\ UNCHANGED lastCall
NextFinish == \E t \in m_types : FinishStep(t) /\ UNCHANGED lastCall

Next == NextCreate \/ NextAddField \/ NextFinish

Spec == Init /\ [][Next]_vars

\* C7: FinishAggregateInitialization on an Enum erases the first field of every
\* payload that carries a leading discriminant field (its other fields keep
\* their order, types and offsets, so its field count decreases by exactly 1),
\* clears the payload's has-discriminant flag, and names the remaining fields
\* of a Tuple payload "0", "1", ... by position.
DiscriminantDropped(before, after) ==
  /\ Len(after.m_fields) = Len(before.m_fields) - 1
  /\ ~after.m_has_discriminant
  /\ \A i \in 1 .. Len(after.m_fields) :
       /\ after.m_fields[i].m_type = before.m_fields[i + 1].m_type
       /\ after.m_fields[i].m_offset = before.m_fields[i + 1].m_offset
       /\ after.m_fields[i].m_name =
            IF before.kind = "Tuple" THEN Digits[i] ELSE before.m_fields[i + 1].m_name

C7_DropDiscriminant ==
  [][\A e \in m_types :
       (AsEnum(heap[e]) /\ ub' = "none" /\ FinishAggregateInitialization(e))
       => \A p \in FinishTargets(e) :
            (heap[p].m_has_discriminant /\ heap[p].m_fields # <<>>)
            => DiscriminantDropped(heap[p], heap'[p])]_vars

\* An Enum with 2 fields whose payloads are two nodes, one of them a Struct,
\* each of which has lost its leading discriminant field to DropDiscriminant.
C7_Witness ==
  /\ ub = "none"
  /\ \E e \in m_types :
       /\ AsEnum(heap[e]) /\ Len(heap[e].m_fields) = 2
       /\ heap[e].m_fields[1].m_type # heap[e].m_fields[2].m_type
       /\ heap[heap[e].m_fields[1].m_type].kind = "Struct"
       /\ \A i \in 1 .. 2 :
            LET p == heap[e].m_fields[i].m_type
            IN AsAggregate(heap[p]) /\ drops[p] = 1 /\ ~heap[p].m_has_discriminant

----------------------------------------------------------------------------
\* SpecIdem: Spec with the last call remembered, so that a repeated
\* finalization shows in the state.

\* The registry holds at most IdemMaxTypes nodes, and at most IdemMaxFields
\* AddFieldToStruct calls are made.
IdemMaxTypes == 4
IdemMaxFields == 3

IdemCreate == CreateStep(IdemMaxTypes) /\ lastCall' = OtherCall
IdemAddField == AddFieldStep(IdemMaxFields) /\ lastCall' = OtherCall
\* again: the call before this one was a FinishAggregateInitialization too, of
\* the same aggregate or of an Enum whose payloads include this one's.
IdemFinish ==
  \E t \in m_types :
    /\ FinishStep(t)
    /\ lastCall' =
         Call("Finish", t, 0, NullType,
              /\ lastCall.op = "Finish"
              /\ AsAggregate(heap[t])
              /\ \/ lastCall.type = t
                 \/ /\ FinishTargets(t) # {}
                    /\ FinishTargets(t) \subseteq FinishTargets(lastCall.type))

NextIdem == IdemCreate \/ IdemAddField \/ IdemFinish

SpecIdem == Init /\ [][NextIdem]_vars

\* C8: a FinishAggregateInitialization call that follows one which reached the
\* same nodes (the same aggregate again, or an Enum sharing its payloads)
\* changes no node; no node loses more than one field to DropDiscriminant.
C8_Idempotent ==
  [][/\ lastCall'.again => UNCHANGED <<m_types, heap, drops, ub>>
     /\ \A p \in DOMAIN drops' : drops'[p] <= 1]_vars

\* An Enum was finalized a second time, after a payload of it had lost its
\* discriminant field to the first call.
C8_Witness ==
  /\ lastCall.again /\ ub = "none"
  /\ AsEnum(heap[lastCall.type])
  /\ \E p \in FinishTargets(lastCall.type) : drops[p] = 1

----------------------------------------------------------------------------
\* SpecEnum: tagged enums are built field by field and their variants are
\* looked up.

\* The registry holds at most EnumMaxTypes nodes, and at most EnumMaxFields
\* AddFieldToStruct calls are made.
EnumMaxTypes == 4
EnumMaxFields == 3

\* What the caller records with a field: a discriminant, or that the field is
\* the default variant (the discriminant passed is then not used).
Records ==
  {[is_default |-> TRUE, discriminant |-> 0]}
  \cup {[is_default |-> FALSE, discriminant |-> d] : d \in Discriminants}

EnumCreate ==
  /\ Cardinality(DOMAIN heap) < EnumMaxTypes
  /\ \/ CreateStructType(FALSE)
     \/ (\A p \in m_types : ~AsEnum(heap[p])) /\ CreateEnumType(0, 1)
  /\ InCreationOrder(heap')
  /\ lastCall' = OtherCall

\* The payload types the caller passes for a new variant of enum e.  No
\* operation compares two pointers or looks into a payload here, so enums that
\* differ only in which payload nodes they name behave alike: the caller takes
\* a payload the enum has already, or the first node it has not used yet.
PayloadTypes(e) ==
  LET used == {heap[e].m_fields[i].m_type : i \in 1 .. Len(heap[e].m_fields)}
      fresh == FieldTypes(e) \ used
  IN used \cup {p \in fresh : \A q \in fresh : p <= q}

EnumAddField ==
  /\ FieldsAdded < EnumMaxFields
  /\ \E e \in m_types, name \in FieldNames, r \in Records :
       /\ AsEnum(heap[e])
       /\ \E t \in PayloadTypes(e) :
            AddFieldToStruct(e, name, t, NextOffset(e), r.is_default, r.discriminant)
  /\ lastCall' = OtherCall

EnumLookup ==
  /\ ub = "none" /\ pc = "idle"
  /\ \E t \in m_types \cup {NullType}, d \in AnyDiscriminant :
       lastCall' = Call("FindEnumVariant", t, d, FindEnumVariant(t, d), FALSE)
  /\ UNCHANGED <<regVars, dynVars>>

NextEnum == EnumCreate \/ EnumAddField \/ EnumLookup

SpecEnum == Init /\ [][NextEnum]_vars

\* The AddFieldToStruct calls on enum e that recorded discriminant d, and those
\* that added a default variant, by their position among e's fields.
RecordedFor(e, d) ==
  {i \in 1 .. Len(recorded[e]) :
     ~recorded[e][i].is_default /\ recorded[e][i].discriminant = d}
RecordedDefault(e) == {i \in 1 .. Len(recorded[e]) : recorded[e][i].is_default}
Latest(S) == CHOOSE i \in S : \A j \in S : j <= i
VariantType(e, i) == heap[e].m_fields[i].m_type

\* C1: FindEnumVariant(type, d) on a tagged Enum returns the type of the field
\* that was added with discriminant d if there is one, whether or not a default
\* variant was added too, and the type of the field added with is_default=true
\* for every other d.
C1_FindEnumVariant ==
  (lastCall.op = "FindEnumVariant" /\ lastCall.type # NullType
     /\ AsEnum(heap[lastCall.type]))
  => LET e == lastCall.type
         d == lastCall.discr
     IN /\ RecordedFor(e, d) # {}
             => lastCall.result = VariantType(e, Latest(RecordedFor(e, d)))
        /\ (RecordedFor(e, d) = {} /\ RecordedDefault(e) # {})
             => lastCall.result = VariantType(e, Latest(RecordedDefault(e)))

\* An Enum with the fields V0 (discriminant 0), V1 (discriminant 1) and
\* Vdefault, of three different types, was asked for a discriminant that is
\* neither 0 nor 1 and answered Vdefault's type.
C1_Witness ==
  /\ lastCall.op = "FindEnumVariant" /\ lastCall.type # NullType
  /\ LET e == lastCall.type
     IN /\ AsEnum(heap[e])
        /\ recorded[e] = <<[is_default |-> FALSE, discriminant |-> 0],
                           [is_default |-> FALSE, discriminant |-> 1],
                           [is_default |-> TRUE, discriminant |-> 0]>>
        /\ Cardinality({VariantType(e, i) : i \in 1 .. 3}) = 3
        /\ lastCall.discr \notin {0, 1}
        /\ lastCall.result = VariantType(e, 3)

\* C2: FindEnumVariant(type, d) returns the invalid type when type is a tagged
\* Enum to which no default variant was added and d was never recorded, and
\* when type is not an Enum at all.
C2_FindEnumVariantFails ==
  lastCall.op = "FindEnumVariant"
  => LET e == lastCall.type
     IN /\ (e = NullType \/ ~AsEnum(heap[e])) => lastCall.result = NullType
        /\ (e # NullType /\ AsEnum(heap[e]) /\ RecordedDefault(e) = {}
              /\ RecordedFor(e, lastCall.discr) = {})
             => lastCall.result = NullType

\* An Enum with fields for the discriminants 0 and 1 and no default variant was
\* asked for another discriminant and answered the invalid type.
C2_Witness ==
  /\ lastCall.op = "FindEnumVariant" /\ lastCall.type # NullType
  /\ LET e == lastCall.type
     IN /\ AsEnum(heap[e])
        /\ RecordedFor(e, 0) # {} /\ RecordedFor(e, 1) # {}
        /\ RecordedDefault(e) = {}
        /\ RecordedFor(e, lastCall.discr) = {}
        /\ lastCall.result = NullType

----------------------------------------------------------------------------
\* SpecQuery: nodes of every kind are created and filled, and the structural
\* queries are asked of them.

\* The registry holds at most QueryMaxTypes nodes, and at most QueryMaxFields
\* AddFieldToStruct calls are made.
QueryMaxTypes == 3
QueryMaxFields == 2

QueryCreate ==
  /\ Cardinality(DOMAIN heap) < QueryMaxTypes
  /\ \/ CreateIntegralType
     \/ CreateStructType(FALSE)
     \/ \E d \in BOOLEAN : CreateTupleType(d)
     \/ CreateUnionType
     \/ CreateEnumType(0, 1)
     \/ \E t \in m_types : CreatePointerType(t)
     \/ \E t \in m_types, n \in ArrayLengths : CreateArrayType(t, n)
     \/ \E t \in m_types : CreateTypedefType(t)
  /\ lastCall' = OtherCall

QueryAddField ==
  /\ FieldsAdded < QueryMaxFields
  /\ \E s \in m_types, name \in FieldNames :
       \E t \in FieldTypes(s) :
         AddFieldToStruct(s, name, t, NextOffset(s), FALSE, FieldsOf(s))
  /\ lastCall' = OtherCall

QueryFinish ==
  /\ \E t \in m_types : FinishAggregateInitialization(t)
  /\ lastCall' = OtherCall

QueryNumChildren ==
  /\ ub = "none" /\ pc = "idle"
  /\ \E t \in m_types :
       lastCall' = Call("GetNumChildren", t, 0, GetNumChildren(t), FALSE)
  /\ UNCHANGED <<regVars, dynVars>>

NextQuery == QueryCreate \/ QueryAddField \/ QueryFinish \/ QueryNumChildren

SpecQuery == Init /\ [][NextQuery]_vars

Handles(r) == {r[i] : i \in 1 .. Len(r)}

\* C9: a step in which a Create*Type call returns adds exactly one node to the
\* registry and returns a handle to it that no earlier call returned, whatever
\* nodes the registry holds already; no step removes a node, so every handle
\* returned so far still names a node of the registry.
C9_IdentityStability ==
  [][/\ m_types \subseteq m_types'
     /\ Handles(returned') \subseteq m_types'
     /\ returned' # returned
          => /\ Len(returned') = Len(returned) + 1
             /\ SubSeq(returned', 1, Len(returned)) = returned
             /\ returned'[Len(returned')] \notin Handles(returned)
             /\ returned'[Len(returned')] \notin m_types
             /\ m_types' = m_types \cup {returned'[Len(returned')]}
     /\ returned' = returned => m_types' = m_types]_vars

\* Two Create*Type calls made nodes that are structurally identical and
\* returned two different handles, both in the registry.
C9_Witness ==
  \E i \in 1 .. Len(returned) : \E j \in 1 .. Len(returned) :
    /\ i < j
    /\ returned[i] # returned[j]
    /\ heap[returned[i]] = heap[returned[j]]
    /\ {returned[i], returned[j]} \subseteq m_types

----------------------------------------------------------------------------
\* SpecDyn: a tagged enum is built and RustLanguageRuntime resolves the dynamic
\* type of values of the registry's types.

\* The registry holds at most DynMaxTypes nodes, and at most DynMaxFields
\* AddFieldToStruct calls are made.
DynMaxTypes == 3
DynMaxFields == 2

\* The load addresses in_value.GetAddressOf can report, and the discriminant
\* offsets the enums are created with.
Addresses == {16, 32}
DiscrOffsets == {0, 4}

\* Variants of the checks below that the properties must tell from the code's:
\* one goes on to read memory whatever address it got, one resolves a variant
\* although the read failed.
AfterGetAddressOf_Unchecked(ptr, process) == "ReadDiscriminant"
AfterReadUnsignedIntegerFromMemory_Unchecked(error_Success) == "Resolve"

\* Where GetDynamicTypeAndAddress goes on after each of its checks; "Return" is
\* return false.
AfterGetEnumDiscriminantLocation(ok) == IF ok THEN "ReadAddress" ELSE "Return"
AfterGetAddressOf(ptr, process) ==
  IF ptr = LLDB_INVALID_ADDRESS THEN "Return"
  ELSE IF ~process THEN "Return"
  ELSE "ReadDiscriminant"
AfterReadUnsignedIntegerFromMemory(error_Success) ==
  IF ~error_Success THEN "Return" ELSE "Resolve"

\* The query moves on to position next, or returns false.
GoOn(next) ==
  IF next = "Return" THEN pc' = "idle" /\ result' = "false"
  ELSE pc' = next /\ result' = "none"

DynCreate ==
  /\ Cardinality(DOMAIN heap) < DynMaxTypes
  /\ \/ CreateStructType(FALSE)
     \/ /\ \A p \in m_types : ~AsEnum(heap[p])
        /\ \E off \in DiscrOffsets : CreateEnumType(off, 1)
  /\ InCreationOrder(heap')
  /\ UNCHANGED lastCall

DynAddField ==
  /\ FieldsAdded < DynMaxFields
  /\ \E e \in m_types, name \in FieldNames, r \in Records :
       /\ AsEnum(heap[e])
       /\ \E t \in PayloadTypes(e) :
            AddFieldToStruct(e, name, t, NextOffset(e), r.is_default, r.discriminant)
  /\ UNCHANGED lastCall

\* GetDynamicTypeAndAddress is entered: the outputs are cleared and the type
\* of in_value is asked for its discriminant location.
DynStart ==
  /\ ub = "none" /\ pc = "idle"
  /\ \E v \in m_types \cup {NullType} :
       /\ in_value' = v
       /\ GoOn(AfterGetEnumDiscriminantLocation(GetEnumDiscriminantLocation(v).ok))
  /\ class_type_or_name' = NullType
  /\ value_type' = "eValueTypeScalar"
  /\ original_ptr' = LLDB_INVALID_ADDRESS
  /\ discriminant' = 0
  /\ mem_reads' = <<>>
  /\ lookups' = 0
  /\ steps' = <<"Start">>
  /\ UNCHANGED <<regVars, lastCall, dynamic_address>>

\* in_value.GetAddressOf(false) and the process of its execution context.
DynReadAddress ==
  /\ pc = "ReadAddress"
  /\ \E ptr \in Addresses \cup {LLDB_INVALID_ADDRESS}, process \in BOOLEAN :
       /\ original_ptr' = ptr
       /\ GoOn(AfterGetAddressOf(ptr, process))
  /\ steps' = Append(steps, "ReadAddress")
  /\ UNCHANGED <<regVars, lastCall, in_value, discriminant, mem_reads, lookups,
                 class_type_or_name, dynamic_address, value_type>>

\* process->ReadUnsignedIntegerFromMemory(original_ptr + discr_offset,
\* discr_byte_size, 0, error): the value in memory, or the fail value 0.
DynReadDiscriminant ==
  /\ pc = "ReadDiscriminant"
  /\ LET loc == GetEnumDiscriminantLocation(in_value)
     IN \E error_Success \in BOOLEAN, value \in AnyDiscriminant :
          /\ ~error_Success => value = 0
          /\ discriminant' = value
          /\ mem_reads' = Append(mem_reads,
                             [address |-> original_ptr + loc.discr_offset,
                              size |-> loc.discr_byte_size,
                              error |-> ~error_Success])
          /\ GoOn(AfterReadUnsignedIntegerFromMemory(error_Success))
  /\ steps' = Append(steps, "ReadDiscriminant")
  /\ UNCHANGED <<regVars, lastCall, in_value, original_ptr, lookups,
                 class_type_or_name, dynamic_address, value_type>>

\* The variant is looked up, the outputs are set and the query returns true.
DynResolve ==
  /\ pc = "Resolve"
  /\ class_type_or_name' = FindEnumVariant(in_value, discriminant)
  /\ lookups' = lookups + 1
  /\ dynamic_address' = original_ptr
  /\ value_type' = "eValueTypeLoadAddress"
  /\ result' = "true"
  /\ pc' = "idle"
  /\ steps' = Append(steps, "Resolve")
  /\ UNCHANGED <<regVars, lastCall, in_value, original_ptr, discriminant, mem_reads>>

NextDyn ==
  \/ DynCreate \/ DynAddField
  \/ DynStart \/ DynReadAddress \/ DynReadDiscriminant \/ DynResolve

SpecDyn == Init /\ [][NextDyn]_vars

QuerySteps == <<"Start", "ReadAddress", "ReadDiscriminant", "Resolve">>

\* The types of the fields of enum e: its variants' payloads.
VariantTypes(e) == {heap[e].m_fields[i].m_type : i \in 1 .. Len(heap[e].m_fields)}

\* C3: a query that returns true has resolved a variant: it never reports
\* success with the invalid type, which is what FindEnumVariant answers when the
\* discriminant read matches no recorded discriminant and the enum has no
\* default variant.
C3_NoSuccessUnresolved ==
  result = "true" => class_type_or_name # NullType

\* C4: the step in which the read of the discriminant reports an error returns
\* false, with no variant looked up, the output type cleared and the value type
\* still scalar; and only the step that returns true sets the dynamic address.
C4_ReadError ==
  [][/\ (Len(mem_reads') = Len(mem_reads) + 1 /\ mem_reads'[Len(mem_reads')].error)
          => /\ result' = "false" /\ pc' = "idle"
             /\ lookups' = 0
             /\ class_type_or_name' = NullType
             /\ value_type' = "eValueTypeScalar"
             /\ dynamic_address' = dynamic_address
     /\ dynamic_address' # dynamic_address => result' = "true"]_vars

\* A query returned false on a read error, after an earlier query had returned
\* true with a resolved variant and set the dynamic address.
C4_Witness ==
  /\ result = "false" /\ pc = "idle"
  /\ Len(mem_reads) = 1 /\ mem_reads[1].error
  /\ lookups = 0 /\ class_type_or_name = NullType
  /\ dynamic_address \in Addresses
  /\ FindEnumVariant(in_value, 0) # NullType

\* C5: a query that returns true for a value at load address A returns the
\* payload type of a variant of the enum, the one FindEnumVariant selects for
\* the discriminant read at A + discr_offset, and the dynamic address A.
C5_SuccessSelectsVariant ==
  result = "true"
  => /\ class_type_or_name \in VariantTypes(in_value)
     /\ class_type_or_name = FindEnumVariant(in_value, discriminant)
     /\ mem_reads = <<[address |-> original_ptr + heap[in_value].m_discr_offset,
                       size |-> heap[in_value].m_discr_byte_size,
                       error |-> FALSE]>>
     /\ dynamic_address = original_ptr

\* C6: the steps of a query are taken in the order Start, ReadAddress,
\* ReadDiscriminant, Resolve; a memory read is issued only for a tagged Enum
\* and at a valid load address, at most once in a query; a query on a type
\* that is not a tagged Enum, or whose address is not available, returns false
\* and has read nothing.
C6_StepOrder ==
  /\ steps = SubSeq(QuerySteps, 1, Len(steps))
  /\ Len(mem_reads) <= 1
  /\ mem_reads # <<>>
       => /\ in_value # NullType /\ AsEnum(heap[in_value])
          /\ original_ptr # LLDB_INVALID_ADDRESS
          /\ Len(steps) >= 3
          /\ mem_reads[1].address = original_ptr + heap[in_value].m_discr_offset
  /\ (steps # <<>> /\ (in_value = NullType \/ ~AsEnum(heap[in_value])))
       => result = "false" /\ mem_reads = <<>> /\ steps = <<"Start">>
  /\ (Len(steps) >= 2 /\ original_ptr = LLDB_INVALID_ADDRESS)
       => result = "false" /\ mem_reads = <<>> /\ Len(steps) = 2

\* A query took all four steps, read memory once at an address past the
\* value's own (a discriminant offset other than 0) and returned true.
C6_Witness ==
  /\ steps = QuerySteps /\ result = "true"
  /\ Len(mem_reads) = 1
  /\ mem_reads[1].address # original_ptr

----------------------------------------------------------------------------
\* SpecVoid: named tuples and structs are created and filled, and are asked
\* whether they are the void type.

\* The registry holds at most VoidMaxTypes nodes, and at most VoidMaxFields
\* AddFieldToStruct calls are made.
VoidMaxTypes == 3
VoidMaxFields == 2

\* The names the caller passes: none, the unit type's, and another one.
TypeNames == {"", "()", "Unit"}

VoidCreate ==
  /\ Cardinality(DOMAIN heap) < VoidMaxTypes
  /\ \/ CreateIntegralType
     \/ CreateVoidType
     \/ \E name \in TypeNames : CreateNamedTupleType(name, FALSE)
     \/ \E name \in TypeNames : CreateNamedStructType(name, FALSE)
  /\ lastCall' = OtherCall

VoidAddField ==
  /\ FieldsAdded < VoidMaxFields
  /\ \E s \in m_types, name \in FieldNames :
       \E t \in FieldTypes(s) :
         AddFieldToStruct(s, name, t, NextOffset(s), FALSE, FieldsOf(s))
  /\ lastCall' = OtherCall

VoidIsVoidType ==
  /\ ub = "none" /\ pc = "idle"
  /\ \E t \in m_types \cup {NullType} :
       lastCall' = Call("IsVoidType", t, 0, IsVoidType(t), FALSE)
  /\ UNCHANGED <<regVars, dynVars>>

NextVoid == VoidCreate \/ VoidAddField \/ VoidIsVoidType

SpecVoid == Init /\ [][NextVoid]_vars

\* C11: IsVoidType answers true for a Tuple named "()" that has no field,
\* false for a Tuple named "()" that has one or more fields, and false for a
\* Struct named "()" that has no field.
C11_VoidDetection ==
  (lastCall.op = "IsVoidType" /\ lastCall.type # NullType
     /\ heap[lastCall.type].m_name = "()")
  => LET t == heap[lastCall.type]
     IN /\ (AsTuple(t) /\ FieldCount(t) = 0) => lastCall.result = TRUE
        /\ (AsTuple(t) /\ FieldCount(t) >= 1) => lastCall.result = FALSE
        /\ (t.kind = "Struct" /\ FieldCount(t) = 0) => lastCall.result = FALSE

\* A Tuple named "()" to which a field was added was asked and is not void.
C11_Witness ==
  /\ lastCall.op = "IsVoidType" /\ lastCall.type # NullType
  /\ AsTuple(heap[lastCall.type]) /\ heap[lastCall.type].m_name = "()"
  /\ FieldCount(heap[lastCall.type]) = 1
  /\ lastCall.result = FALSE

\* C12 as stated: IsVoidType(t) holds exactly when t is a Tuple without fields
\* whose name is empty or "()".
C12_Original ==
  lastCall.op = "IsVoidType"
  => (lastCall.result = TRUE
        <=> /\ lastCall.type # NullType
            /\ AsTuple(heap[lastCall.type])
            /\ FieldCount(heap[lastCall.type]) = 0
            /\ heap[lastCall.type].m_name \in {"", "()"})

\* C12: IsVoidType(t) holds exactly when t is a Tuple without fields whose name
\* is "()"; a Tuple with the empty name is not void.
C12_VoidIff ==
  lastCall.op = "IsVoidType"
  => (lastCall.result = TRUE
        <=> /\ lastCall.type # NullType
            /\ AsTuple(heap[lastCall.type])
            /\ FieldCount(heap[lastCall.type]) = 0
            /\ heap[lastCall.type].m_name = "()")

\* A Tuple without fields and with the empty name was asked and is not void.
C12_Witness ==
  /\ lastCall.op = "IsVoidType" /\ lastCall.type # NullType
  /\ AsTuple(heap[lastCall.type]) /\ heap[lastCall.type].m_name = ""
  /\ FieldCount(heap[lastCall.type]) = 0
  /\ lastCall.result = FALSE

----------------------------------------------------------------------------
\* SpecOwner: two MotokoASTContext instances create nodes, and this one is
\* handed handles of its own, of the other instance and of another type
\* system.

\* The two registries hold at most OwnerMaxTypes nodes together, and at most
\* OwnerMaxFields AddFieldToStruct calls are made.
OwnerMaxTypes == 3
OwnerMaxFields == 2

\* The handles a caller can pass.
Handles_Any == DOMAIN heap \cup {NullType, ForeignType}

OwnerCreate ==
  /\ Cardinality(DOMAIN heap) < OwnerMaxTypes
  /\ \/ CreateIntegralType
     \/ CreateStructType(FALSE)
     \/ CreateEnumType(0, 1)
  /\ lastCall' = OtherCall

\* Create*Type on the other instance: the node is allocated and cached in that
\* instance's m_types.
CreateElsewhere(node) ==
  /\ ub = "none" /\ pc = "idle"
  /\ heap' = Put(heap, NewType, node)
  /\ recorded' = Put(recorded, NewType, <<>>)
  /\ drops' = Put(drops, NewType, 0)
  /\ UNCHANGED <<m_types, returned, ub, dynVars, declVars>>

OwnerCreateElsewhere ==
  /\ Cardinality(DOMAIN heap) < OwnerMaxTypes
  /\ \E node \in {MotokoIntegral, MotokoStruct(FALSE)} : CreateElsewhere(node)
  /\ lastCall' = OtherCall

OwnerAddField ==
  /\ FieldsAdded < OwnerMaxFields
  /\ \E h \in Handles_Any, name \in FieldNames :
       \E t \in {p \in DOMAIN heap : heap[p].kind = "Integral"} :
         /\ AddFieldToStruct(h, name, t, 0, FALSE, 0)
         /\ lastCall' = Call("AddFieldToStruct", h, 0, t, FALSE)

NextOwner == OwnerCreate \/ OwnerCreateElsewhere \/ OwnerAddField

SpecOwner == Init /\ [][NextOwner]_vars

\* C14: AddFieldToStruct(h, ...) changes no node when h is not a node of the
\* registry it is invoked on or is not an aggregate; otherwise it appends one
\* field to the end of h's field list and changes no other node.
C14_AddFieldFrame ==
  [][lastCall'.op = "AddFieldToStruct"
     => LET h == lastCall'.type
        IN IF h \notin m_types \/ ~AsAggregate(heap[h])
             THEN heap' = heap
             ELSE /\ Len(heap'[h].m_fields) = Len(heap[h].m_fields) + 1
                  /\ SubSeq(heap'[h].m_fields, 1, Len(heap[h].m_fields))
                       = heap[h].m_fields
                  /\ heap'[h].m_fields[Len(heap'[h].m_fields)].m_type
                       = lastCall'.result
                  /\ \A p \in DOMAIN heap \ {h} : heap'[p] = heap[p]]_vars

----------------------------------------------------------------------------
\* SpecSynth: nodes are created, by this registry and by another instance, and
\* C declarations are synthesized for them.

\* The registries hold at most SynthMaxTypes nodes, and at most SynthMaxFields
\* AddFieldToStruct calls are made.
SynthMaxTypes == 2
SynthMaxFields == 1

\* The parameter lists CreateFunctionType is given: up to two types.
ParameterLists ==
  {<<>>} \cup {<<a>> : a \in m_types} \cup {<<a, b>> : a \in m_types, b \in m_types}

SynthCreate ==
  /\ Cardinality(DOMAIN heap) < SynthMaxTypes
  /\ \/ CreateIntegralType
     \/ CreateStructType(FALSE)
     \/ \E t \in m_types : CreatePointerType(t)
     \/ \E r \in m_types, params \in ParameterLists : CreateFunctionType(r, params, <<>>)
  /\ lastCall' = OtherCall

SynthCreateElsewhere ==
  /\ Cardinality(DOMAIN heap) < SynthMaxTypes
  /\ CreateElsewhere(MotokoStruct(FALSE))
  /\ lastCall' = OtherCall

\* A field of a type created before the aggregate, named or not.
SynthAddField ==
  /\ FieldsAdded < SynthMaxFields
  /\ \E s \in m_types, name \in {"", "f"} :
       \E t \in {p \in m_types : p < s} :
         AddFieldToStruct(s, name, t, NextOffset(s), FALSE, FieldsOf(s))
  /\ lastCall' = OtherCall

\* GetCABITypeDeclaration(type, "v", &name_map, &result) with a TypeNameMap as
\* constructed, or with the one the call before this one has filled.
SynthDeclare ==
  /\ ub = "none" /\ pc = "idle"
  /\ \E type \in Handles_Any :
       \E before \in {TypeNameMap}
                    \cup (IF lastCall.op = "GetCABITypeDeclaration"
                            THEN {lastCall.result.name_map} ELSE {}) :
         LET out == GetCABITypeDeclaration(type, "v", before, <<>>)
         IN lastCall' = Call("GetCABITypeDeclaration", type, 0,
                             [ok |-> out.ok, result |-> out.result,
                              name_map |-> out.name_map, before |-> before],
                             before # TypeNameMap)
  /\ UNCHANGED <<regVars, dynVars>>

NextSynth == SynthCreate \/ SynthCreateElsewhere \/ SynthAddField \/ SynthDeclare

SpecSynth == Init /\ [][NextSynth]_vars

Occurrences(text, piece) == Cardinality({i \in 1 .. Len(text) : text[i] = piece})
TagsUpTo(n) == {"tag" \o UnsignedToString(i) : i \in 0 .. n - 1}
\* The tag a definition defines: the piece after "struct " or "union ".
DefinedTag(def) == def[2]

\* C13: with one TypeNameMap, the aggregates reached have the tags tag0, tag1,
\* ... up to the counter, no two the same; the prelude holds exactly one
\* definition for each of them, in the order the tags were handed out at the
\* latest; a call leaves the tags and definitions the map held before as they
\* were, and the declaration of an aggregate is its tag and the variable name.
C13_TagDedup ==
  (lastCall.op = "GetCABITypeDeclaration" /\ lastCall.result.ok)
  => LET nm == lastCall.result.name_map
         before == lastCall.result.before
         tagged == DOMAIN nm.name_map
     IN /\ \A a \in tagged : AsAggregate(heap[a])
        /\ \A a \in tagged : \A b \in tagged :
             a # b => nm.name_map[a] # nm.name_map[b]
        /\ {nm.name_map[a] : a \in tagged} = TagsUpTo(nm.counter)
        /\ Len(nm.typedefs) = Cardinality(tagged)
        /\ \A a \in tagged :
             Cardinality({i \in 1 .. Len(nm.typedefs) :
                            DefinedTag(nm.typedefs[i]) = nm.name_map[a]}) = 1
        /\ \A a \in DOMAIN before.name_map :
             a \in tagged /\ nm.name_map[a] = before.name_map[a]
        /\ SubSeq(nm.typedefs, 1, Len(before.typedefs)) = before.typedefs
        /\ AsAggregate(heap[lastCall.type])
             => lastCall.result.result = <<nm.name_map[lastCall.type], " ", "v">>

\* The declaration of a Function whose return type and two parameters are the
\* same Struct was synthesized: the prelude holds one definition, and the
\* declaration names tag0 three times.
C13_Witness ==
  /\ lastCall.op = "GetCABITypeDeclaration" /\ lastCall.result.ok
  /\ lastCall.result.before = TypeNameMap
  /\ LET f == heap[lastCall.type]
     IN /\ AsFunction(f)
        /\ heap[f.m_ref].kind = "Struct"
        /\ f.m_arguments = <<f.m_ref, f.m_ref>>
  /\ Len(lastCall.result.name_map.typedefs) = 1
  /\ Occurrences(lastCall.result.result, "tag0") = 3

\* C15: GetCABITypeDeclaration returns false, leaves the declarator unwritten
\* and the TypeNameMap as it was when the type is invalid or is not a node of
\* the registry it is invoked on; it returns true only for a node of this
\* registry.
C15_SynthesisOwnership ==
  lastCall.op = "GetCABITypeDeclaration"
  => /\ lastCall.type \notin m_types
          => /\ ~lastCall.result.ok
             /\ lastCall.result.result = <<>>
             /\ lastCall.result.name_map = lastCall.result.before
     /\ lastCall.result.ok => lastCall.type \in m_types

----------------------------------------------------------------------------
\* SpecDecl: the namespace builders are called, on the root, on the contexts
\* they returned, and on invalid and foreign contexts.

\* At most DeclMaxCalls namespace builder calls are made.
DeclMaxCalls == 4

DeclNames == {"a", "b"}
MangledNames == {"_a", "_b"}

\* The contexts a caller passes: live contexts of this tree, the invalid
\* context and a context of another type system.
ParentContexts ==
  {p \in DOMAIN decls : decls[p].alive /\ AsDeclContext(decls[p])}
    \cup {NullDecl, ForeignDecl}

DeclCall(op, parent, name, res) ==
  [op |-> op, parent |-> parent, name |-> name, res |-> res]

DeclTranslationUnit ==
  /\ ub = "none" /\ pc = "idle"
  /\ Len(decl_calls) < DeclMaxCalls
  /\ LET r == GetTranslationUnitDecl
     IN /\ decls' = r.decls
        /\ m_tu_decl' = r.m_tu_decl
        /\ decl_calls' = Append(decl_calls,
                                DeclCall("GetTranslationUnitDecl", NullDecl, "", r.res))
  /\ UNCHANGED <<m_types, heap, returned, recorded, drops, ub, lastCall, dynVars>>

DeclNamespace ==
  /\ ub = "none" /\ pc = "idle"
  /\ Len(decl_calls) < DeclMaxCalls
  /\ \E parent \in ParentContexts, name \in DeclNames :
       LET r == GetNamespaceDecl(parent, name)
       IN /\ decls' = r.decls
          /\ decl_calls' = Append(decl_calls,
                                  DeclCall("GetNamespaceDecl", parent, name, r.res))
  /\ UNCHANGED <<m_types, heap, returned, recorded, drops, ub, lastCall, dynVars,
                 m_tu_decl>>

DeclDecl ==
  /\ ub = "none" /\ pc = "idle"
  /\ Len(decl_calls) < DeclMaxCalls
  /\ \E parent \in ParentContexts, name \in DeclNames, mangled \in MangledNames :
       LET r == GetDecl(parent, name, mangled)
       IN /\ decls' = r.decls
          /\ decl_calls' = Append(decl_calls,
                                  DeclCall("GetDecl", parent, name, r.res))
  /\ UNCHANGED <<m_types, heap, returned, recorded, drops, ub, lastCall, dynVars,
                 m_tu_decl>>

NextDecl == DeclTranslationUnit \/ DeclNamespace \/ DeclDecl

SpecDecl == Init /\ [][NextDecl]_vars

\* C16: two calls of the same builder with the same parent and name return the
\* same object (GetTranslationUnitDecl: every call returns the same root), so
\* that an object is created on the first lookup miss only.
C16_GetOrCreate ==
  \A i \in 1 .. Len(decl_calls) : \A j \in 1 .. Len(decl_calls) :
    (/\ i < j
     /\ decl_calls[i].op = decl_calls[j].op
     /\ decl_calls[i].parent = decl_calls[j].parent
     /\ decl_calls[i].name = decl_calls[j].name)
    => decl_calls[j].res = decl_calls[i].res

----------------------------------------------------------------------------
\* SpecEnumDecl: a tagged Enum is built, with its discriminant at offset 0 or
\* elsewhere, and its C declaration is synthesized after every step.

\* The registry holds at most EnumDeclMaxTypes nodes, and at most
\* EnumDeclMaxFields AddFieldToStruct calls are made.
EnumDeclMaxTypes == 2
EnumDeclMaxFields == 2

\* The byte sizes of the discriminants.
DiscrByteSizes == {1, 4}

EnumDeclCreate ==
  /\ Cardinality(DOMAIN heap) < EnumDeclMaxTypes
  /\ \/ CreateIntegralType
     \/ /\ \A p \in m_types : ~AsEnum(heap[p])
        /\ \E off \in DiscrOffsets, size \in DiscrByteSizes : CreateEnumType(off, size)
  /\ lastCall' = OtherCall

\* A variant of the Enum, named or not, with the next discriminant.
EnumDeclAddField ==
  /\ FieldsAdded < EnumDeclMaxFields
  /\ \E e \in m_types, name \in {"", "f"} :
       /\ AsEnum(heap[e])
       /\ \E t \in FieldTypes(e) :
            AddFieldToStruct(e, name, t, NextOffset(e), FALSE, FieldsOf(e))
  /\ lastCall' = OtherCall

EnumDeclDeclare ==
  /\ ub = "none" /\ pc = "idle"
  /\ \E type \in m_types :
       LET out == GetCABITypeDeclaration(type, "v", TypeNameMap, <<>>)
       IN lastCall' = Call("GetCABITypeDeclaration", type, 0,
                           [ok |-> out.ok, result |-> out.result,
                            name_map |-> out.name_map, before |-> TypeNameMap],
                           FALSE)
  /\ UNCHANGED <<regVars, dynVars>>

NextEnumDecl == EnumDeclCreate \/ EnumDeclAddField \/ EnumDeclDeclare

SpecEnumDecl == Init /\ [][NextEnumDecl]_vars

\* The definition the declared type has in the prelude.
DefinitionOf(call) ==
  LET nm == call.result.name_map
  IN nm.typedefs[CHOOSE i \in 1 .. Len(nm.typedefs) :
                   DefinedTag(nm.typedefs[i]) = nm.name_map[call.type]]
\* The places of a definition at which the discriminant field is declared.
DiscrPlaces(def) == {i \in 1 .. Len(def) : def[i] = "_t __discr; "}
\* The places of a definition at which a field declaration ends.
FieldPlaces(def) == {i \in 1 .. Len(def) : def[i] = "; "}

\* C17: the definition synthesized for a tagged Enum is a struct; it declares
\* __discr, once and of the discriminant's width, exactly when the Enum has at
\* least two fields and its discriminant offset is 0; the declaration of
\* __discr stands before the declarations of all the fields; with fewer than
\* two fields there is none, whatever the offset.
C17_DiscriminantField ==
  (/\ lastCall.op = "GetCABITypeDeclaration"
   /\ lastCall.type \in m_types
   /\ AsEnum(heap[lastCall.type]))
  => LET e == heap[lastCall.type]
         def == DefinitionOf(lastCall)
     IN /\ lastCall.result.ok
        /\ def[1] = "struct "
        /\ Cardinality(FieldPlaces(def)) = FieldCount(e)
        /\ DiscrPlaces(def) # {} <=> (FieldCount(e) >= 2 /\ e.m_discr_offset = 0)
        /\ FieldCount(e) <= 1 => DiscrPlaces(def) = {}
        /\ \A i \in DiscrPlaces(def) :
             /\ DiscrPlaces(def) = {i}
             /\ def[i - 2] = "int"
             /\ def[i - 1] = UnsignedToString(8 * e.m_discr_byte_size)
             /\ \A j \in FieldPlaces(def) : i < j

\* An Enum with two fields and its discriminant at offset 0 was declared, and
\* its definition declares __discr.
C17_Witness ==
  /\ lastCall.op = "GetCABITypeDeclaration"
  /\ lastCall.type \in m_types
  /\ AsEnum(heap[lastCall.type])
  /\ FieldCount(heap[lastCall.type]) = 2
  /\ heap[lastCall.type].m_discr_offset = 0
  /\ DiscrPlaces(DefinitionOf(lastCall)) # {}

----------------------------------------------------------------------------
\* SpecCount: arrays, aggregates and typedefs are created, filled and
\* finalized, and their children are counted.

\* The registry holds at most CountMaxTypes nodes, and at most CountMaxFields
\* AddFieldToStruct calls are made.
CountMaxTypes == 3
CountMaxFields == 2

CountCreate ==
  /\ Cardinality(DOMAIN heap) < CountMaxTypes
  /\ \/ CreateIntegralType
     \/ CreateStructType(TRUE)
     \/ CreateEnumType(0, 1)
     \/ \E t \in m_types, n \in ArrayLengths : CreateArrayType(t, n)
     \/ \E t \in m_types : CreateTypedefType(t)
  /\ lastCall' = OtherCall

CountAddField ==
  /\ FieldsAdded < CountMaxFields
  /\ \E s \in m_types, name \in FieldNames :
       \E t \in FieldTypes(s) :
         AddFieldToStruct(s, name, t, NextOffset(s), FALSE, FieldsOf(s))
  /\ lastCall' = OtherCall

CountFinish ==
  /\ \E t \in m_types : FinishAggregateInitialization(t)
  /\ lastCall' = OtherCall

CountNumChildren ==
  /\ ub = "none" /\ pc = "idle"
  /\ \E t \in m_types \cup {NullType} :
       lastCall' = Call("GetNumChildren", t, 0, GetNumChildren(t), FALSE)
  /\ UNCHANGED <<regVars, dynVars>>

NextCount == CountCreate \/ CountAddField \/ CountFinish \/ CountNumChildren

SpecCount == Init /\ [][NextCount]_vars

\* The fields added to node p less the discriminants dropped from it.
FieldsLeft(p) == FieldsOf(p) - drops[p]

\* C18: GetNumChildren of the invalid type and of a primitive is 0, of an Array
\* its length, of an aggregate the number of fields it holds now (those added
\* less those dropped), and of a Typedef what GetNumChildren of the aliased
\* type is.
C18_NumChildren ==
  lastCall.op = "GetNumChildren"
  => IF lastCall.type = NullType THEN lastCall.result = 0
     ELSE LET t == heap[lastCall.type]
          IN /\ t.kind = "Integral" => lastCall.result = 0
             /\ AsArray(t) => lastCall.result = t.m_length
             /\ AsAggregate(t) => /\ lastCall.result = Len(t.m_fields)
                                  /\ lastCall.result = FieldsLeft(lastCall.type)
             /\ AsTypedef(t) =>
                  \/ /\ AsArray(heap[t.m_ref])
                     /\ lastCall.result = heap[t.m_ref].m_length
                  \/ /\ AsAggregate(heap[t.m_ref])
                     /\ lastCall.result = Len(heap[t.m_ref].m_fields)
                  \/ /\ heap[t.m_ref].kind = "Integral"
                     /\ lastCall.result = 0
                  \/ /\ AsTypedef(heap[t.m_ref])
                     /\ lastCall.result = GetNumChildren(t.m_ref)

\* The children of an aggregate that a field was added to and that has lost
\* its discriminant since were counted.
C18_Witness ==
  /\ lastCall.op = "GetNumChildren"
  /\ lastCall.type # NullType
  /\ AsAggregate(heap[lastCall.type])
  /\ drops[lastCall.type] > 0
  /\ lastCall.result = FieldsOf(lastCall.type) - 1

----------------------------------------------------------------------------
\* SpecChild: scalars, aggregates, pointers and arrays are created and filled,
\* and their children are fetched.

\* The registry holds at most ChildMaxTypes nodes, at most ChildMaxFields
\* AddFieldToStruct calls are made, and the children asked for have an index
\* up to ChildMaxIdx.
ChildMaxTypes == 3
ChildMaxFields == 2
ChildMaxIdx == 2

\* What child_byte_size may hold after the empty Optional was dereferenced.
GarbageSizes == {0, 1, 4}

ChildCreate ==
  /\ Cardinality(DOMAIN heap) < ChildMaxTypes
  /\ \/ CreateIntegralType
     \/ CreateStructType(FALSE)
     \/ CreateVoidType
     \/ \E t \in m_types : CreatePointerType(t)
     \/ \E t \in m_types, n \in ArrayLengths : CreateArrayType(t, n)
  /\ InCreationOrder(heap')
  /\ lastCall' = OtherCall

ChildAddField ==
  /\ FieldsAdded < ChildMaxFields
  /\ \E s \in m_types, name \in FieldNames :
       \E t \in FieldTypes(s) :
         AddFieldToStruct(s, name, t, NextOffset(s), FALSE, FieldsOf(s))
  /\ lastCall' = OtherCall

\* GetChildCompilerTypeAtIndex(type, idx, transparent_pointers,
\* ignore_array_bounds, ...) of a ValueObject named "p".  discr holds idx, and
\* the result holds the flags passed next to the outputs.
ChildAtIndex ==
  /\ ub = "none" /\ pc = "idle"
  /\ \E type \in m_types \cup {NullType}, idx \in 0 .. ChildMaxIdx,
        transparent_pointers \in BOOLEAN, ignore_array_bounds \in BOOLEAN :
       LET out == GetChildCompilerTypeAtIndex(type, idx, transparent_pointers,
                                              ignore_array_bounds, "p")
           flags == [transparent_pointers |-> transparent_pointers,
                     ignore_array_bounds |-> ignore_array_bounds]
       IN IF out.ub
            THEN /\ ub' = "empty Optional dereferenced"
                 /\ \E garbage \in GarbageSizes :
                      lastCall' = Call("GetChildCompilerTypeAtIndex", type, idx,
                                       [out |-> [out EXCEPT !.child_byte_size = garbage],
                                        flags |-> flags], FALSE)
            ELSE /\ ub' = ub
                 /\ lastCall' = Call("GetChildCompilerTypeAtIndex", type, idx,
                                     [out |-> out, flags |-> flags], FALSE)
  /\ UNCHANGED <<m_types, heap, returned, recorded, drops, declVars, dynVars>>

NextChild == ChildCreate \/ ChildAddField \/ ChildAtIndex

SpecChild == Init /\ [][NextChild]_vars

\* The last call fetched a child of a node of the kind given, and ran into no
\* undefined behaviour.
ChildFetchedOf(kind) ==
  /\ lastCall.op = "GetChildCompilerTypeAtIndex"
  /\ lastCall.type \in m_types
  /\ heap[lastCall.type].kind = kind
  /\ ub = "none"

\* C19: the idx-th child of an Array of length L with elements of S bytes is
\* the element type, named "[idx]", of S bytes at byte offset idx * S, when
\* idx < L or ignore_array_bounds is set; otherwise the invalid type is
\* returned and the outputs are as cleared.
C19_ArrayChild ==
  ChildFetchedOf("Array")
  => LET a == heap[lastCall.type]
         idx == lastCall.discr
         out == lastCall.result.out
         S == ByteSize(a.m_ref)
     IN IF idx < a.m_length \/ lastCall.result.flags.ignore_array_bounds
          THEN /\ out.type = a.m_ref
               /\ out.child_name = "[" \o UnsignedToString(idx) \o "]"
               /\ out.child_byte_size = S
               /\ out.child_byte_offset = idx * S
          ELSE /\ out.type = NullType
               /\ out.child_name = ""
               /\ out.child_byte_size = 0
               /\ out.child_byte_offset = 0
               /\ ~out.child_is_deref_of_parent

\* A child beyond the end of an Array of elements of 4 bytes was fetched with
\* ignore_array_bounds set.
C19_Witness ==
  /\ ChildFetchedOf("Array")
  /\ lastCall.discr >= heap[lastCall.type].m_length
  /\ lastCall.result.flags.ignore_array_bounds
  /\ lastCall.result.out.type = heap[lastCall.type].m_ref
  /\ lastCall.result.out.child_byte_offset = 4 * lastCall.discr

\* The last call fetched a child of a Pointer whose pointee is valid and not
\* void.
PointerChildFetched ==
  /\ ChildFetchedOf("Pointer")
  /\ heap[lastCall.type].m_ref # NullType
  /\ ~IsVoidType(heap[lastCall.type].m_ref)

\* The call went through the pointer to a child of the pointee.
Delegated ==
  /\ lastCall.result.flags.transparent_pointers
  /\ IsAggregateType(heap[lastCall.type].m_ref)

\* The field of the pointee that the call names, where the pointee has one.
PointeeField ==
  LET pointee == heap[heap[lastCall.type].m_ref]
  IN IF AsAggregate(pointee) /\ lastCall.discr < Len(pointee.m_fields)
       THEN pointee.m_fields[lastCall.discr + 1]
       ELSE NoField

\* The outputs are those of the pointee's field.
ChildIsPointeeField ==
  /\ lastCall.result.out.type = PointeeField.m_type
  /\ lastCall.result.out.child_name = PointeeField.m_name
  /\ lastCall.result.out.child_byte_size = ByteSize(PointeeField.m_type)
  /\ lastCall.result.out.child_byte_offset = PointeeField.m_offset

\* The outputs are those of a pointer that is not looked through.
ChildIsPointee ==
  IF lastCall.discr = 0
    THEN /\ lastCall.result.out.type = heap[lastCall.type].m_ref
         /\ lastCall.result.out.child_byte_offset = 0
         /\ lastCall.result.out.child_is_deref_of_parent
    ELSE lastCall.result.out.type = NullType

\* C20 as stated: a call that goes through the pointer returns the pointee's
\* idx-th field and sets child_is_deref_of_parent; any other call returns the
\* pointee for idx = 0, at offset 0 and as a dereference of the parent, and
\* the invalid type for idx > 0.
C20_Original ==
  PointerChildFetched
  => IF Delegated
       THEN PointeeField # NoField
              => ChildIsPointeeField /\ lastCall.result.out.child_is_deref_of_parent
       ELSE ChildIsPointee

\* C20, amended: a call that goes through the pointer returns what the same
\* call on the pointee returns (for an aggregate pointee its idx-th field) and
\* leaves child_is_deref_of_parent cleared; any other call returns the pointee
\* for idx = 0, at offset 0 and as a dereference of the parent, and the
\* invalid type for idx > 0.
C20_PointerChild ==
  PointerChildFetched
  => IF Delegated
       THEN /\ PointeeField # NoField => ChildIsPointeeField
            /\ ~lastCall.result.out.child_is_deref_of_parent
            /\ LET direct == GetChildCompilerTypeAtIndex(
                               heap[lastCall.type].m_ref, lastCall.discr, TRUE,
                               lastCall.result.flags.ignore_array_bounds, "p")
               IN /\ lastCall.result.out.type = direct.type
                  /\ lastCall.result.out.child_name = direct.child_name
                  /\ lastCall.result.out.child_byte_size = direct.child_byte_size
                  /\ lastCall.result.out.child_byte_offset = direct.child_byte_offset
       ELSE ChildIsPointee

\* The second field of the pointee was fetched through a pointer.
C20_Witness ==
  /\ PointerChildFetched
  /\ Delegated
  /\ lastCall.discr = 1
  /\ PointeeField # NoField
  /\ lastCall.result.out.type = PointeeField.m_type
  /\ lastCall.result.out.child_byte_offset = 4

----------------------------------------------------------------------------
\* SpecName: aggregates are filled with fields whose names may repeat, and
\* children are looked up by name, in the aggregates and through pointers.

\* The registry holds at most NameMaxTypes nodes, and at most NameMaxFields
\* AddFieldToStruct calls are made.
NameMaxTypes == 3
NameMaxFields == 2

\* The names the fields are given, and the names looked up: those and one that
\* no field has.
GivenNames == {"f", "g"}
LookedUpNames == GivenNames \cup {"h"}

NameCreate ==
  /\ Cardinality(DOMAIN heap) < NameMaxTypes
  /\ \/ CreateIntegralType
     \/ CreateStructType(FALSE)
     \/ \E t \in m_types : CreatePointerType(t)
     \/ \E t \in m_types : CreateTypedefType(t)
  /\ InCreationOrder(heap')
  /\ lastCall' = OtherCall

NameAddField ==
  /\ FieldsAdded < NameMaxFields
  /\ \E s \in m_types, name \in GivenNames :
       \E t \in FieldTypes(s) :
         AddFieldToStruct(s, name, t, NextOffset(s), FALSE, FieldsOf(s))
  /\ lastCall' = OtherCall

\* GetIndexOfChildWithName(type, name, ...): the result holds the name next to
\* the index returned.
NameIndex ==
  /\ ub = "none" /\ pc = "idle"
  /\ \E type \in m_types \cup {NullType}, name \in LookedUpNames :
       lastCall' = Call("GetIndexOfChildWithName", type, 0,
                        [index |-> GetIndexOfChildWithName(type, name),
                         name |-> name], FALSE)
  /\ UNCHANGED <<regVars, dynVars>>

NextName == NameCreate \/ NameAddField \/ NameIndex

SpecName == Init /\ [][NextName]_vars

\* The node a chain of pointers that starts at p ends at.
RECURSIVE Pointee(_)
Pointee(p) == IF p # NullType /\ AsPointer(heap[p]) THEN Pointee(heap[p].m_ref) ELSE p

\* C21: GetIndexOfChildWithName of an aggregate, or of a pointer to one, is the
\* lowest index of a field of that name, and UINT_MAX when there is none; of
\* every other type it is UINT_MAX; and where it is an index, GetFieldAtIndex
\* of the aggregate yields a field of that name there.
C21_IndexOfChild ==
  lastCall.op = "GetIndexOfChildWithName"
  => LET agg == Pointee(lastCall.type)
         index == lastCall.result.index
         name == lastCall.result.name
     IN IF agg # NullType /\ AsAggregate(heap[agg])
          THEN LET named == {i \in 1 .. Len(heap[agg].m_fields) :
                               heap[agg].m_fields[i].m_name = name}
               IN IF named = {}
                    THEN index = UINT_MAX
                    ELSE /\ index + 1 \in named
                         /\ \A i \in named : index + 1 <= i
                         /\ GetFieldAtIndex(agg, index).name = name
                         /\ GetFieldAtIndex(agg, index).type # NullType
          ELSE index = UINT_MAX

\* A name that two fields of the pointee have was looked up through a pointer.
C21_Witness ==
  /\ lastCall.op = "GetIndexOfChildWithName"
  /\ lastCall.type \in m_types
  /\ AsPointer(heap[lastCall.type])
  /\ AsAggregate(heap[heap[lastCall.type].m_ref])
  /\ Cardinality(FieldsNamed(heap[heap[lastCall.type].m_ref], lastCall.result.name)) = 2
  /\ lastCall.result.index = 0

----------------------------------------------------------------------------
\* SpecQual: a namespace tree is built, and qualified names are asked for
\* while it grows.

\* At most QualMaxCalls calls are made.
QualMaxCalls == 6

LiveContexts == {p \in DOMAIN decls : decls[p].alive /\ AsDeclContext(decls[p])}
LiveDecls == {p \in DOMAIN decls : decls[p].alive}

QualTranslationUnit ==
  /\ ub = "none" /\ pc = "idle"
  /\ Len(decl_calls) < QualMaxCalls
  /\ m_tu_decl = NullDecl
  /\ LET r == GetTranslationUnitDecl
     IN /\ decls' = r.decls
        /\ m_tu_decl' = r.m_tu_decl
        /\ decl_calls' = Append(decl_calls,
                                DeclCall("GetTranslationUnitDecl", NullDecl, "", r.res))
  /\ UNCHANGED <<m_types, heap, returned, recorded, drops, ub, lastCall, dynVars>>

\* A namespace or a declaration is asked for that the parent does not hold
\* yet.
QualBuild ==
  /\ ub = "none" /\ pc = "idle"
  /\ Len(decl_calls) < QualMaxCalls
  /\ \E parent \in LiveContexts, name \in DeclNames :
       /\ FindByName(decls[parent], name) = NullDecl
       /\ \/ LET r == GetNamespaceDecl(parent, name)
             IN /\ decls' = r.decls
                /\ decl_calls' = Append(decl_calls,
                                        DeclCall("GetNamespaceDecl", parent, name, r.res))
          \/ LET r == GetDecl(parent, name, "_a")
             IN /\ decls' = r.decls
                /\ decl_calls' = Append(decl_calls,
                                        DeclCall("GetDecl", parent, name, r.res))
  /\ UNCHANGED <<m_types, heap, returned, recorded, drops, ub, lastCall, dynVars,
                 m_tu_decl>>

\* DeclContextGetScopeQualifiedName, and QualifiedName of a declaration: the
\* call names the object in parent and the name returned in res.
QualQualifiedName ==
  /\ ub = "none" /\ pc = "idle"
  /\ Len(decl_calls) < QualMaxCalls
  /\ \E p \in LiveDecls :
       LET r == QualifiedName(decls, p)
       IN /\ decls' = r.decls
          /\ decl_calls' = Append(decl_calls, DeclCall("QualifiedName", p, "", r.res))
  /\ UNCHANGED <<m_types, heap, returned, recorded, drops, ub, lastCall, dynVars,
                 m_tu_decl>>

NextQual == QualTranslationUnit \/ QualBuild \/ QualQualifiedName

SpecQual == Init /\ [][NextQual]_vars

\* The qualified name of object p, from the names on its way to the root.
RECURSIVE Qualified(_)
Qualified(p) ==
  IF decls[p].m_parent = NullDecl THEN decls[p].m_name
  ELSE IF Qualified(decls[p].m_parent) = "" THEN decls[p].m_name
  ELSE Qualified(decls[p].m_parent) \o "::" \o decls[p].m_name

\* C22: every request for a qualified name returns the object's own name when
\* it has no parent or the parent's qualified name is empty, and the parent's
\* qualified name, "::" and its own name otherwise, whatever was added to the
\* tree before or after; a name is stored in an object only by a request, and
\* a stored name is the one every request returns.
C22_QualifiedName ==
  /\ \A i \in 1 .. Len(decl_calls) :
       decl_calls[i].op = "QualifiedName"
       => decl_calls[i].res = Qualified(decl_calls[i].parent)
  /\ \A p \in DOMAIN decls :
       decls[p].m_full_name # ""
       => /\ decls[p].m_full_name = Qualified(p)
          /\ \E i \in 1 .. Len(decl_calls) :
               /\ decl_calls[i].op = "QualifiedName"
               /\ IsWithin(decls, decl_calls[i].parent, p)

\* The qualified name of an object two levels below the root was asked for,
\* the tree grew, and the name was asked for again.
C22_Witness ==
  \E i \in 1 .. Len(decl_calls) : \E j \in 1 .. Len(decl_calls) :
    \E k \in 1 .. Len(decl_calls) :
      /\ i < j /\ j < k
      /\ decl_calls[i].op = "QualifiedName"
      /\ decl_calls[j].op \in {"GetNamespaceDecl", "GetDecl"}
      /\ decl_calls[k].op = "QualifiedName"
      /\ decl_calls[k].parent = decl_calls[i].parent
      /\ decl_calls[i].res = "a::b"
      /\ decl_calls[k].res = "a::b"

----------------------------------------------------------------------------
\* SpecFields: an aggregate is given named and unnamed scalar fields, and its
\* C declaration is synthesized.

\* The registry holds at most FieldsMaxTypes nodes, and at most FieldsMaxFields
\* AddFieldToStruct calls are made.
FieldsMaxTypes == 2
FieldsMaxFields == 3

\* The names the fields have in the source: none, and two identifiers.
SourceNames == {"", "f", "_0"}

FieldsCreate ==
  /\ Cardinality(DOMAIN heap) < FieldsMaxTypes
  /\ \/ CreateIntegralType
     \/ CreateStructType(FALSE)
     \/ CreateTupleType(FALSE)
  /\ InCreationOrder(heap')
  /\ lastCall' = OtherCall

FieldsAddField ==
  /\ FieldsAdded < FieldsMaxFields
  /\ \E s \in m_types, name \in SourceNames :
       \E t \in FieldTypes(s) :
         AddFieldToStruct(s, name, t, NextOffset(s), FALSE, FieldsOf(s))
  /\ lastCall' = OtherCall

FieldsDeclare ==
  /\ ub = "none" /\ pc = "idle"
  /\ \E type \in m_types :
       LET out == GetCABITypeDeclaration(type, "v", TypeNameMap, <<>>)
       IN lastCall' = Call("GetCABITypeDeclaration", type, 0,
                           [ok |-> out.ok, result |-> out.result,
                            name_map |-> out.name_map, before |-> TypeNameMap],
                           FALSE)
  /\ UNCHANGED <<regVars, dynVars>>

NextFields == FieldsCreate \/ FieldsAddField \/ FieldsDeclare

SpecFields == Init /\ [][NextFields]_vars

\* The name the k-th field declaration of a definition declares: the piece in
\* front of the k-th "; ".
EmittedName(def, k) ==
  LET place == CHOOSE j \in FieldPlaces(def) :
                 Cardinality({i \in FieldPlaces(def) : i < j}) = k - 1
  IN def[place - 1]

\* The number of unnamed fields in front of field k.
UnnamedBefore(fields, k) == Cardinality({i \in 1 .. k - 1 : fields[i].m_name = ""})

\* C23: the definition of an aggregate declares its fields in the order they
\* were added; the k-th unnamed field (from 0) is declared as "__k" and a named
\* field as "_" and its name; and no unnamed field is declared under the name
\* a named field is declared under.
C23_FieldNames ==
  (/\ lastCall.op = "GetCABITypeDeclaration"
   /\ lastCall.type \in m_types
   /\ AsAggregate(heap[lastCall.type]))
  => LET fields == heap[lastCall.type].m_fields
         def == DefinitionOf(lastCall)
     IN /\ Cardinality(FieldPlaces(def)) = Len(fields)
        /\ \A k \in 1 .. Len(fields) :
             EmittedName(def, k) =
               IF fields[k].m_name = ""
                 THEN "__" \o UnsignedToString(UnnamedBefore(fields, k))
                 ELSE "_" \o fields[k].m_name
        /\ \A k \in 1 .. Len(fields) : \A n \in 1 .. Len(fields) :
             (fields[k].m_name = "" /\ fields[n].m_name # "")
             => EmittedName(def, k) # EmittedName(def, n)

----------------------------------------------------------------------------
\* Template parameters.

TemplMaxTypes == 2
\* The nodes hold at most TemplMaxParams template arguments in all.
TemplMaxParams == 2

RECURSIVE TemplateArgumentsIn(_)
TemplateArgumentsIn(ps) ==
  IF ps = {} THEN 0
  ELSE LET p == CHOOSE q \in ps : TRUE
       IN Len(heap[p].m_template_args) + TemplateArgumentsIn(ps \ {p})

\* The type-argument lists a Function is created with.
TemplateLists ==
  UNION {[1 .. n -> m_types] :
           n \in 0 .. TemplMaxParams - TemplateArgumentsIn(m_types)}

TemplCreate ==
  /\ Cardinality(DOMAIN heap) < TemplMaxTypes
  /\ \/ CreateIntegralType /\ lastCall' = OtherCall
     \/ CreateStructType(FALSE) /\ lastCall' = OtherCall
     \/ \E r \in m_types, template_params \in TemplateLists :
          /\ CreateFunctionType(r, <<>>, template_params)
          /\ lastCall' = Call("CreateFunctionType", NewType, 0,
                              template_params, FALSE)
  /\ InCreationOrder(heap')

TemplAddParameter ==
  /\ \E type \in m_types \cup {NullType, ForeignType}, param \in m_types :
       /\ TemplateArgumentsIn(m_types) < TemplMaxParams
       /\ AddTemplateParameter(type, param)
       /\ lastCall' = Call("AddTemplateParameter", type, param, NullType, FALSE)

\* The template arguments the accessors report for a node.
TemplateArguments(type) ==
  [i \in 1 .. GetNumTemplateArguments(type) |->
     GetTypeTemplateArgument(type, i - 1)]

TemplGet ==
  /\ ub = "none" /\ pc = "idle"
  /\ \E type \in m_types \cup {NullType} :
       lastCall' = Call("GetNumTemplateArguments", type, 0,
                        TemplateArguments(type), FALSE)
  /\ UNCHANGED <<regVars, dynVars>>

NextTempl == TemplCreate \/ TemplAddParameter \/ TemplGet

SpecTempl == Init /\ [][NextTempl]_vars

\* After the step the accessors report the list args for the node.
Reports(type, args) ==
  /\ GetNumTemplateArguments(type)' = Len(args)
  /\ \A i \in 1 .. Len(args) :
       GetTypeTemplateArgument(type, i - 1)' = [type |-> args[i], ub |-> FALSE]

\* What one step does to the template arguments the accessors report.
TemplateStep ==
  /\ \A p \in DOMAIN heap :
       LET before == [i \in 1 .. GetNumTemplateArguments(p) |->
                        GetTypeTemplateArgument(p, i - 1).type]
       IN IF /\ lastCall'.op = "AddTemplateParameter"
             /\ lastCall'.type = p
             /\ AsAggregate(heap[p])
            THEN Reports(p, Append(before, lastCall'.discr))
            ELSE Reports(p, before)
  /\ \A p \in DOMAIN heap' \ DOMAIN heap :
       Reports(p, IF AsFunction(heap'[p]) THEN lastCall'.result ELSE <<>>)
  /\ (lastCall'.op = "AddTemplateParameter"
        /\ ~(lastCall'.type \in DOMAIN heap /\ AsAggregate(heap[lastCall'.type])))
     => heap' = heap

\* C24: the k-th AddTemplateParameter call on an aggregate makes the accessors
\* report one more argument, the added one at index k - 1, and leaves the
\* arguments reported before in place; a Function reports the list it was
\* created with, from then on; AddTemplateParameter on anything that is not an
\* aggregate changes no node; and every other kind of node, and the null
\* type, reports no template argument.
C24_TemplateArguments ==
  /\ [][TemplateStep]_vars
  /\ [](\A p \in DOMAIN heap \cup {NullType} :
          (p = NullType \/ ~(AsAggregate(heap[p]) \/ AsFunction(heap[p])))
          => GetNumTemplateArguments(p) = 0)

\* An aggregate was given two different template parameters and reports them
\* in the order they were added.
C24_Witness ==
  /\ lastCall.op = "GetNumTemplateArguments"
  /\ lastCall.type \in m_types
  /\ AsAggregate(heap[lastCall.type])
  /\ Len(lastCall.result) = 2
  /\ lastCall.result[1].type # lastCall.result[2].type

----------------------------------------------------------------------------
\* Child count against child access.

\* C25: every index below GetNumChildren of a type gives a valid child, for
\* either setting of transparent_pointers.
C25_CountAgreesWithAccess ==
  (/\ lastCall.op = "GetChildCompilerTypeAtIndex"
   /\ lastCall.discr < GetNumChildren(lastCall.type))
  => /\ ~lastCall.result.out.ub
     /\ lastCall.result.out.type # NullType

----------------------------------------------------------------------------
\* SpecTagged: enums and their payloads are built and finalized in any order,
\* an enum may be the payload of an enum, and variants are looked up.

TaggedMaxTypes == 2
TaggedMaxFields == 3
\* The discriminants recorded, and those looked up.
TaggedDiscriminants == {0}
TaggedLookedUp == {0, 1}

TaggedCreate ==
  /\ Cardinality(DOMAIN heap) < TaggedMaxTypes
  /\ \/ \E d \in BOOLEAN : CreateStructType(d)
     \/ CreateEnumType(0, 1)
  /\ InCreationOrder(heap')
  /\ lastCall' = OtherCall

\* The field types the caller passes: any node for a variant of an enum, enums
\* and the enum itself included; no operation looks at the type of a field of
\* another aggregate, which gets the first node.
TaggedFieldTypes(s) ==
  IF AsEnum(heap[s]) THEN m_types
  ELSE {p \in m_types : \A q \in m_types : p <= q}

\* What the caller records with a field of aggregate s; only an enum uses it.
TaggedRecords(s) ==
  IF AsEnum(heap[s])
    THEN {[is_default |-> TRUE, discriminant |-> 0]}
         \cup {[is_default |-> FALSE, discriminant |-> d] : d \in TaggedDiscriminants}
    ELSE {[is_default |-> FALSE, discriminant |-> 0]}

TaggedAddField ==
  /\ FieldsAdded < TaggedMaxFields
  /\ \E s \in m_types, name \in FieldNames :
       \E t \in TaggedFieldTypes(s), r \in TaggedRecords(s) :
         AddFieldToStruct(s, name, t, NextOffset(s), r.is_default, r.discriminant)
  /\ lastCall' = OtherCall

TaggedFinish ==
  /\ \E t \in m_types :
       /\ FinishAggregateInitialization(t)
       /\ lastCall' = OtherCall

TaggedLookup ==
  /\ ub = "none" /\ pc = "idle"
  /\ \E t \in m_types, d \in TaggedLookedUp :
       /\ AsEnum(heap[t])
       /\ lastCall' = Call("FindEnumVariant", t, d, FindEnumVariant(t, d), FALSE)
  /\ UNCHANGED <<regVars, dynVars>>

NextTagged == TaggedCreate \/ TaggedAddField \/ TaggedFinish \/ TaggedLookup

SpecTagged == Init /\ [][NextTagged]_vars

\* The field indexes enum e holds.
StoredIndexes(e) ==
  {heap[e].m_discriminants[d] : d \in DOMAIN heap[e].m_discriminants}
  \cup (IF heap[e].m_default = -1 THEN {} ELSE {heap[e].m_default})

\* C26: every field index in an Enum's discriminant map, and its default index
\* when it has one, is below the Enum's field count, and FindEnumVariant never
\* reads a field past the end.
C26_IndexesInRange ==
  /\ \A e \in DOMAIN heap :
       AsEnum(heap[e])
       => \A idx \in StoredIndexes(e) : 0 <= idx /\ idx < FieldCount(heap[e])
  /\ lastCall.op = "FindEnumVariant" => lastCall.result # NoField.m_type

\* An enum with a recorded and a default variant was finalized, a payload lost
\* its discriminant field, and a variant was looked up afterwards.
C26_Witness ==
  /\ lastCall.op = "FindEnumVariant"
  /\ lastCall.type \in m_types
  /\ AsEnum(heap[lastCall.type])
  /\ heap[lastCall.type].m_default # -1
  /\ DOMAIN heap[lastCall.type].m_discriminants # {}
  /\ \E p \in FinishTargets(lastCall.type) : drops[p] = 1

----------------------------------------------------------------------------
\* Ownership in the declaration tree.

\* Object p is held by the m_decls of its parent, and so on up to the
\* translation unit.
RECURSIVE OwnedFromRoot(_)
OwnedFromRoot(p) ==
  \/ p = m_tu_decl
  \/ /\ decls[p].m_parent \in DOMAIN decls
     /\ FindByName(decls[decls[p].m_parent], decls[p].m_name) = p
     /\ OwnedFromRoot(decls[p].m_parent)

\* C27: every object GetTranslationUnitDecl, GetNamespaceDecl or GetDecl has
\* returned is still alive and owned, through its parent, by the translation
\* unit, also when a namespace and a declaration of the same name were
\* requested under the same parent.
C27_ReturnedStayOwned ==
  \A i \in 1 .. Len(decl_calls) :
    decl_calls[i].res \in DOMAIN decls
    => /\ decls[decl_calls[i].res].alive
       /\ OwnedFromRoot(decl_calls[i].res)

----------------------------------------------------------------------------
\* SpecCycle: aggregates get fields of any type, of their own type and of
\* pointers to aggregates created before or after them included, and C
\* declarations are synthesized with a TypeNameMap as constructed.

CycleMaxTypes == 3
CycleMaxFields == 2

CycleCreate ==
  /\ Cardinality(DOMAIN heap) < CycleMaxTypes
  /\ \/ CreateStructType(FALSE)
     \/ \E t \in m_types : CreatePointerType(t)
     \/ \E t \in m_types, n \in ArrayLengths : CreateArrayType(t, n)
  /\ lastCall' = OtherCall

CycleAddField ==
  /\ FieldsAdded < CycleMaxFields
  /\ \E s \in m_types, t \in m_types, name \in FieldNames :
       AddFieldToStruct(s, name, t, NextOffset(s), FALSE, FieldsOf(s))
  /\ lastCall' = OtherCall

CycleDeclare ==
  /\ ub = "none" /\ pc = "idle"
  /\ \E type \in m_types :
       LET out == GetCABITypeDeclaration(type, "v", TypeNameMap, <<>>)
       IN lastCall' = Call("GetCABITypeDeclaration", type, 0,
                           [ok |-> out.ok, result |-> out.result,
                            name_map |-> out.name_map, before |-> TypeNameMap],
                           FALSE)
  /\ UNCHANGED <<regVars, dynVars>>

NextCycle == CycleCreate \/ CycleAddField \/ CycleDeclare

SpecCycle == Init /\ [][NextCycle]_vars

\* The nodes a node refers to: the types of its fields, its pointee.
RefersTo(p) ==
  {heap[p].m_fields[i].m_type : i \in 1 .. Len(heap[p].m_fields)}
  \cup (IF heap[p].m_ref = NullType THEN {} ELSE {heap[p].m_ref})

\* The nodes reached from the nodes in S in at most n steps.
RECURSIVE ReachedFrom(_, _)
ReachedFrom(S, n) ==
  IF n = 0 THEN S
  ELSE ReachedFrom(S \cup UNION {RefersTo(p) : p \in S}, n - 1)

\* The node reaches itself through a Pointer field.
ReachesItself(a) ==
  \E i \in 1 .. Len(heap[a].m_fields) :
    /\ AsPointer(heap[heap[a].m_fields[i].m_type])
    /\ a \in ReachedFrom({heap[a].m_fields[i].m_type}, Cardinality(DOMAIN heap))

\* The number of field declarations in the definitions of a prelude.
RECURSIVE FieldsDeclared(_)
FieldsDeclared(typedefs) ==
  IF typedefs = <<>> THEN 0
  ELSE Cardinality(FieldPlaces(Head(typedefs))) + FieldsDeclared(Tail(typedefs))

\* C28: synthesis for a type that reaches an aggregate which reaches itself
\* through a Pointer field ends, having rendered the fields of every aggregate
\* reached once: there is one tag and one definition for each of them, and
\* the definitions declare as many fields as these aggregates have.
C28_CyclicTerminates ==
  (/\ lastCall.op = "GetCABITypeDeclaration"
   /\ \E a \in ReachedFrom({lastCall.type}, Cardinality(DOMAIN heap)) :
        AsAggregate(heap[a]) /\ ReachesItself(a))
  => LET nm == lastCall.result.name_map
         reached == {a \in ReachedFrom({lastCall.type}, Cardinality(DOMAIN heap)) :
                       AsAggregate(heap[a])}
     IN /\ lastCall.result.ok
        /\ DOMAIN nm.name_map = reached
        /\ nm.counter = Cardinality(reached)
        /\ Len(nm.typedefs) = Cardinality(reached)
        /\ \A a \in reached :
             Cardinality({i \in 1 .. Len(nm.typedefs) :
                            DefinedTag(nm.typedefs[i]) = nm.name_map[a]}) = 1
        /\ FieldsDeclared(nm.typedefs) = FieldsAddedTo(reached)

\* The declaration of a Struct was synthesized that holds another Struct by
\* value, which holds a Pointer to the first.
C28_Witness ==
  /\ lastCall.op = "GetCABITypeDeclaration"
  /\ lastCall.type \in m_types
  /\ AsAggregate(heap[lastCall.type])
  /\ \E i \in 1 .. Len(heap[lastCall.type].m_fields) :
       LET b == heap[lastCall.type].m_fields[i].m_type
       IN /\ b # lastCall.type /\ AsAggregate(heap[b])
          /\ \E j \in 1 .. Len(heap[b].m_fields) :
               LET ptr == heap[heap[b].m_fields[j].m_type]
               IN AsPointer(ptr) /\ ptr.m_ref = lastCall.type

----------------------------------------------------------------------------
\* The order of the definitions in the prelude.

\* The aggregate a field of type t holds by value: t itself, or the element
\* of an Array of it; NullType where there is none.
RECURSIVE HeldByValue(_)
HeldByValue(t) ==
  IF AsAggregate(heap[t]) THEN t
  ELSE IF AsArray(heap[t]) THEN HeldByValue(heap[t].m_ref)
  ELSE NullType

\* The place of the definition of tag in the prelude.
PlaceOf(typedefs, tag) ==
  CHOOSE i \in 1 .. Len(typedefs) : DefinedTag(typedefs[i]) = tag

\* The number of a tag: tagN was the N-th handed out, counting from 0.
TagNumber(nm, tag) ==
  CHOOSE n \in 0 .. nm.counter - 1 : tag = "tag" \o UnsignedToString(n)

\* Aggregate b was reached first while the fields of a were rendered, as a
\* field of a (or the element of an Array field) held by value.
FirstReachedIn(nm, a, b) ==
  /\ \E i \in 1 .. Len(heap[a].m_fields) : HeldByValue(heap[a].m_fields[i].m_type) = b
  /\ TagNumber(nm, nm.name_map[a]) < TagNumber(nm, nm.name_map[b])

\* C29: in the prelude of one synthesis call the definition of an aggregate
\* that was first reached as a field held by value (or as the element of an
\* Array field) of another aggregate stands before the definition of that
\* aggregate, and when the call returns the prelude holds the definition of
\* every tag the declarator names.
C29_DefinitionBeforeUse ==
  (lastCall.op = "GetCABITypeDeclaration" /\ lastCall.result.ok)
  => LET nm == lastCall.result.name_map
     IN /\ \A a \in DOMAIN nm.name_map : \A b \in DOMAIN nm.name_map :
             FirstReachedIn(nm, a, b)
             => PlaceOf(nm.typedefs, nm.name_map[b])
                  < PlaceOf(nm.typedefs, nm.name_map[a])
        /\ \A i \in 1 .. Len(lastCall.result.result) :
             lastCall.result.result[i] \in TagsUpTo(nm.counter)
             => \E j \in 1 .. Len(nm.typedefs) :
                  DefinedTag(nm.typedefs[j]) = lastCall.result.result[i]

\* The declaration of a Struct was synthesized that holds an Array of another
\* Struct, which holds a third aggregate or a scalar of its own.
C29_Witness ==
  /\ lastCall.op = "GetCABITypeDeclaration" /\ lastCall.result.ok
  /\ AsAggregate(heap[lastCall.type])
  /\ \E b \in DOMAIN lastCall.result.name_map.name_map :
       /\ FirstReachedIn(lastCall.result.name_map, lastCall.type, b)
       /\ \E i \in 1 .. Len(heap[lastCall.type].m_fields) :
            AsArray(heap[heap[lastCall.type].m_fields[i].m_type])
  /\ Len(lastCall.result.name_map.typedefs) = 2

----------------------------------------------------------------------------
\* What FinishAggregateInitialization leaves alone.

\* The names, the offsets and the number of the fields of a node, and its
\* has-discriminant flag.
Shape(t) ==
  [names |-> [i \in 1 .. Len(t.m_fields) |-> t.m_fields[i].m_name],
   offsets |-> [i \in 1 .. Len(t.m_fields) |-> t.m_fields[i].m_offset],
   flag |-> t.m_has_discriminant]

\* C30: FinishAggregateInitialization of an Enum leaves the field count, the
\* field names, the field offsets and the flag of every payload aggregate
\* without the has-discriminant flag as they were, and the Enum's own fields
\* and discriminant map too; of a Struct, Tuple or Union it changes no node.
C30_FinishFrame ==
  [][lastCall'.op = "Finish"
     => LET a == lastCall'.type
        IN IF AsEnum(heap[a])
             THEN /\ \A p \in FinishTargets(a) :
                       ~heap[p].m_has_discriminant
                       => Shape(heap'[p]) = Shape(heap[p])
                  /\ heap'[a].m_fields = heap[a].m_fields
                  /\ heap'[a].m_discriminants = heap[a].m_discriminants
             ELSE heap' = heap]_vars

====
